---- MODULE Spec2Model ----
(***************************************************************************)
(* Board design rule check of LibrePCB (BoardDesignRuleCheck::execute and  *)
(* the checks it runs), as a state machine.                                *)
(*                                                                         *)
(* Lengths are integer nanometres.  Areas (ClipperLib::Paths) are sets of  *)
(* axis-parallel rectangles <<x1, y1, x2, y2>>; a Path is a sequence of    *)
(* points <<x, y>>.                                                        *)
(***************************************************************************)
EXTENDS Integers, Sequences, FiniteSets, TLC

(***************************************************************************)
(* Bounds of the model.                                                    *)
(***************************************************************************)
\* At most this many checks are switched off in a settings record.
MaxDisabled == 1

\* At most this many calls of execute() on one BoardDesignRuleCheck object.
MaxRuns == 2

\* At most this many messages in a list given to prepareRuleCheckMessages().
MaxMessages == 3

\* Lengths are multiplied by factors up to this one.
MaxScale == 3

\* At most this many pins in a list of overlapping pins.
MaxPins == 4

\* At most this many pins, and this many pads, registered at a component
\* signal instance.
MaxRegistered == 2

\* At most this many setters are called on one CmdTextEdit.
MaxSetters == 2

\* At most this many pads are placed with the add-pads tool.
MaxPads == 2

\* The signed integer type T of the fixed point conversions has this many
\* bits, and at most this many decimal positions are asked for.
TBits == 8

MaxPointPos == 4

\* At most this many characters in a string given to a suffix constructor.
MaxLength == 17

(***************************************************************************)
(* Small helpers.                                                          *)
(***************************************************************************)
Min(a, b) == IF a <= b THEN a ELSE b

Max(a, b) == IF a >= b THEN a ELSE b

Range(s) == {s[i] : i \in DOMAIN s}

RECURSIVE Concat(_)
Concat(ss) == IF ss = <<>> THEN <<>> ELSE Head(ss) \o Concat(Tail(ss))

\* The sequence <<f[1], ..., f[n]>> flattened, f a sequence of sequences.
FlatMap(s, Op(_)) == Concat([i \in DOMAIN s |-> Op(s[i])])

IsPrefix(s, t) == Len(s) <= Len(t) /\ SubSeq(t, 1, Len(s)) = s

(***************************************************************************)
(* Geometry primitives (Length, Point, Path, ClipperHelpers).              *)
(***************************************************************************)
\* BoardDesignRuleCheck::maxArcTolerance(): 5 um.
maxArcTolerance == 5000

RectOK(r) == r[1] < r[3] /\ r[2] < r[4]

Inflate(r, d) == <<r[1] - d, r[2] - d, r[3] + d, r[4] + d>>

\* ClipperHelpers::offset(): every polygon grown by d.
offset(paths, d) == {r \in {Inflate(q, d) : q \in paths} : RectOK(r)}

\* ClipperHelpers::intersect() followed by flattenTree(): the overlaps with a
\* positive area.
intersect(a, b) ==
  {r \in {<<Max(p[1], q[1]), Max(p[2], q[2]), Min(p[3], q[3]), Min(p[4], q[4])>> :
            p \in a, q \in b} : RectOK(r)}

\* ClipperHelpers::unite().
unite(a, b) == a \cup b

\* The coordinates at which the rectangles of an area start or end.
XCuts(a) == {r[1] : r \in a} \cup {r[3] : r \in a}

YCuts(a) == {r[2] : r \in a} \cup {r[4] : r \in a}

Inside(cell, r) ==
  r[1] <= cell[1] /\ r[2] <= cell[2] /\ cell[3] <= r[3] /\ cell[4] <= r[4]

\* The grid cells of rectangle r cut at the coordinates of area a.
Cells(r, a) ==
  LET xs == {x \in XCuts(a) : r[1] < x /\ x < r[3]} \cup {r[1], r[3]}
      ys == {y \in YCuts(a) : r[2] < y /\ y < r[4]} \cup {r[2], r[4]}
      NextOf(v, s) == CHOOSE w \in s : w > v /\ \A u \in s : u > v => w <= u
  IN  {<<x, y, NextOf(x, xs), NextOf(y, ys)>> :
         x \in xs \ {r[3]}, y \in ys \ {r[4]}}

\* ClipperHelpers::subtractToTree() followed by flattenTree(): what is left of
\* area a after area b is taken away.
subtract(a, b) ==
  UNION {{c \in Cells(r, b) : \A q \in b : ~Inside(c, q)} : r \in a}

\* ClipperHelpers::intersect(QList<Paths>): the area common to all the areas.
RECURSIVE intersectAll(_)
intersectAll(areas) ==
  IF areas = <<>> THEN {}
  ELSE IF Len(areas) = 1 THEN areas[1]
  ELSE intersect(areas[1], intersectAll(Tail(areas)))

\* The bounding box of the points of a path.
BBox(path) ==
  LET xs == {path[i][1] : i \in DOMAIN path}
      ys == {path[i][2] : i \in DOMAIN path}
      lo(s) == CHOOSE v \in s : \A u \in s : v <= u
      hi(s) == CHOOSE v \in s : \A u \in s : v >= u
  IN  <<lo(xs), lo(ys), hi(xs), hi(ys)>>

\* ClipperHelpers::convert(Path): the polygon of a path (Clipper closes an
\* open path implicitly).
convert(path) ==
  IF path = <<>> THEN {} ELSE {r \in {BBox(path)} : RectOK(r)}

\* Path::circle(diameter).translated(center).
circle(diameter, center) ==
  <<<<center[1] - diameter \div 2, center[2] - diameter \div 2>>,
    <<center[1] + diameter \div 2, center[2] - diameter \div 2>>,
    <<center[1] + diameter \div 2, center[2] + diameter \div 2>>,
    <<center[1] - diameter \div 2, center[2] + diameter \div 2>>,
    <<center[1] - diameter \div 2, center[2] - diameter \div 2>>>>

\* Path::obround(p1, p2, width).
obround(p1, p2, width) == Inflate(BBox(<<p1, p2>>), width \div 2)

\* Path::toOutlineStrokes(width): one obround per segment of the path, a disc
\* for a path of one vertex.
toOutlineStrokes(path, width) ==
  IF Len(path) = 0 THEN {}
  ELSE IF Len(path) = 1 THEN {obround(path[1], path[1], width)}
  ELSE {obround(path[i], path[i + 1], width) : i \in 1..(Len(path) - 1)}

\* Path::isClosed().
isClosed(path) == Len(path) >= 2 /\ path[1] = path[Len(path)]

\* Transform(device): position and mirroring of a device (rotation 0).
MapPoint(t, p) ==
  <<t.pos[1] + (IF t.mirror THEN -p[1] ELSE p[1]), t.pos[2] + p[2]>>

MapPath(t, path) == [i \in DOMAIN path |-> MapPoint(t, path[i])]

MapRect(t, r) == BBox(<<MapPoint(t, <<r[1], r[2]>>), MapPoint(t, <<r[3], r[4]>>)>>)

MapLayer(t, layer) ==
  IF ~t.mirror THEN layer
  ELSE CASE layer = "top_cu" -> "bot_cu"
         [] layer = "bot_cu" -> "top_cu"
         [] layer = "top_courtyard" -> "bot_courtyard"
         [] layer = "bot_courtyard" -> "top_courtyard"
         [] OTHER -> layer

NoTransform == [pos |-> <<0, 0>>, mirror |-> FALSE]

(***************************************************************************)
(* Boards.  A board is a record of the objects the checks read:            *)
(*   copperLayers  Board::getCopperLayers()                                *)
(*   netSegments   [uuid, net, vias, netLines, netPoints]                  *)
(*   planes        [uuid, layer, net, minWidth, outline]                   *)
(*   polygons      [uuid, layer, lineWidth, filled, path]                  *)
(*   strokeTexts   [uuid, layer, strokeWidth, paths]                       *)
(*   holes         [uuid, diameter, path, curved]                          *)
(*   devices       [uuid, pos, mirror, cmp, libDevice, pads, polygons,     *)
(*                  circles, holes, strokeTexts]                           *)
(*   components    [uuid, schematicOnly, defaultDevice] (the circuit)      *)
(*   unrouted      the connections an air wire rebuild finds missing       *)
(* NoNet stands for a null NetSignal, NoUuid for an unset optional Uuid.   *)
(***************************************************************************)
NoNet == ""

NoUuid == ""

Mm(x) == x * 1000000

RectPath(x1, y1, x2, y2) ==
  <<<<x1, y1>>, <<x2, y1>>, <<x2, y2>>, <<x1, y2>>, <<x1, y1>>>>

EmptyBoard ==
  [copperLayers |-> <<"top_cu", "bot_cu">>,
   netSegments |-> <<>>, planes |-> <<>>, polygons |-> <<>>,
   strokeTexts |-> <<>>, holes |-> <<>>, devices |-> <<>>,
   components |-> <<>>, unrouted |-> <<>>]

OutlinePolygon ==
  [uuid |-> "pg_outline", layer |-> "brd_outlines", lineWidth |-> 0,
   filled |-> FALSE, path |-> RectPath(0, 0, Mm(20), Mm(10))]

Courtyard(uuid, layer, half) ==
  [uuid |-> uuid, layer |-> layer, lineWidth |-> 0, filled |-> FALSE,
   path |-> RectPath(-half, -half, half, half)]

\* A board on which every check finds something.
BoardA ==
  [EmptyBoard EXCEPT
   !.polygons = <<OutlinePolygon>>,
   !.netSegments =
     <<[uuid |-> "ns1", net |-> "GND",
        vias |-> <<[uuid |-> "via1", pos |-> <<200000, Mm(5)>>,
                    drill |-> 300000, size |-> 500000]>>,
        netLines |-> <<[uuid |-> "nl1", layer |-> "top_cu",
                        p1 |-> <<Mm(5), Mm(3)>>, p2 |-> <<Mm(15), Mm(3)>>,
                        width |-> 200000]>>,
        netPoints |-> <<[uuid |-> "np1", pos |-> <<Mm(5), Mm(3)>>, used |-> TRUE],
                        [uuid |-> "np2", pos |-> <<Mm(9), Mm(9)>>, used |-> FALSE]>>],
       [uuid |-> "ns2", net |-> "VCC",
        vias |-> <<>>,
        netLines |-> <<[uuid |-> "nl2", layer |-> "top_cu",
                        p1 |-> <<Mm(5), 3120000>>, p2 |-> <<Mm(15), 3120000>>,
                        width |-> 100000]>>,
        netPoints |-> <<>>],
       [uuid |-> "ns3", net |-> NoNet,
        vias |-> <<>>, netLines |-> <<>>, netPoints |-> <<>>]>>,
   !.planes =
     <<[uuid |-> "pl1", layer |-> "bot_cu", net |-> "GND", minWidth |-> 100000,
        outline |-> RectPath(Mm(1), Mm(1), Mm(19), Mm(9))]>>,
   !.strokeTexts =
     <<[uuid |-> "st1", layer |-> "top_cu", strokeWidth |-> 150000,
        paths |-> <<<<<<Mm(16), Mm(8)>>, <<Mm(17), Mm(8)>>>>>>]>>,
   !.holes =
     <<[uuid |-> "h1", diameter |-> 200000, curved |-> FALSE,
        path |-> <<<<300000, Mm(8)>>>>],
       [uuid |-> "h2", diameter |-> 800000, curved |-> FALSE,
        path |-> <<<<Mm(10), 3800000>>, <<Mm(12), 3800000>>>>],
       [uuid |-> "h3", diameter |-> Mm(1), curved |-> FALSE,
        path |-> <<<<1200000, Mm(8)>>>>]>>,
   !.devices =
     <<[uuid |-> "dev1", pos |-> <<Mm(5), Mm(6)>>, mirror |-> FALSE,
        cmp |-> "cmp1", libDevice |-> "libdevA",
        pads |-> <<[uuid |-> "pad1", pos |-> <<0, 0>>, net |-> "VCC",
                    layers |-> {"top_cu", "bot_cu"},
                    geometries |-> [l \in {"top_cu", "bot_cu"} |->
                                      {<<-400000, -400000, 400000, 400000>>}],
                    holes |-> <<[uuid |-> "ph1", diameter |-> 250000,
                                 curved |-> FALSE, path |-> <<<<0, 0>>>>]>>,
                    netLines |-> <<"top_cu">>]>>,
        polygons |-> <<Courtyard("cy1", "top_courtyard", Mm(1))>>,
        circles |-> <<>>, holes |-> <<>>, strokeTexts |-> <<>>],
       [uuid |-> "dev2", pos |-> <<6500000, Mm(6)>>, mirror |-> FALSE,
        cmp |-> "cmp2", libDevice |-> "libdevB",
        pads |-> <<[uuid |-> "pad2", pos |-> <<0, 0>>, net |-> NoNet,
                    layers |-> {"top_cu", "bot_cu"},
                    geometries |-> [l \in {"top_cu", "bot_cu"} |->
                                      {<<200000, -300000, 900000, 300000>>}],
                    holes |-> <<[uuid |-> "ph2", diameter |-> 600000,
                                 curved |-> FALSE,
                                 path |-> <<<<300000, 0>>, <<800000, 0>>>>]>>,
                    netLines |-> <<"top_cu">>]>>,
        polygons |-> <<Courtyard("cy2", "top_courtyard", Mm(1)),
                       [uuid |-> "pg_open", layer |-> "brd_outlines",
                        lineWidth |-> 0, filled |-> FALSE,
                        path |-> <<<<Mm(10), 0>>, <<Mm(11), 0>>, <<Mm(11), Mm(1)>>>>]>>,
        circles |-> <<[uuid |-> "ci1", layer |-> "top_cu", center |-> <<0, Mm(2)>>,
                       diameter |-> 400000, lineWidth |-> 0, filled |-> TRUE]>>,
        holes |-> <<[uuid |-> "fh1", diameter |-> 250000, curved |-> FALSE,
                     path |-> <<<<0, -1500000>>>>]>>,
        strokeTexts |-> <<>>]>>,
   !.components =
     <<[uuid |-> "cmp1", schematicOnly |-> FALSE, defaultDevice |-> "libdevB"],
       [uuid |-> "cmp2", schematicOnly |-> FALSE, defaultDevice |-> NoUuid],
       [uuid |-> "cmp3", schematicOnly |-> FALSE, defaultDevice |-> NoUuid],
       [uuid |-> "cmp4", schematicOnly |-> TRUE, defaultDevice |-> NoUuid]>>,
   !.unrouted = <<[p1 |-> "pad1", p2 |-> "np2", net |-> "VCC",
                   pos1 |-> <<Mm(5), Mm(6)>>, pos2 |-> <<Mm(9), Mm(9)>>]>>]

\* A board on which no check finds anything.
BoardB ==
  [EmptyBoard EXCEPT
   !.polygons = <<OutlinePolygon>>,
   !.netSegments =
     <<[uuid |-> "ns1", net |-> "GND",
        vias |-> <<[uuid |-> "via1", pos |-> <<Mm(10), Mm(5)>>,
                    drill |-> 400000, size |-> Mm(1)]>>,
        netLines |-> <<[uuid |-> "nl1", layer |-> "top_cu",
                        p1 |-> <<Mm(10), Mm(5)>>, p2 |-> <<Mm(15), Mm(5)>>,
                        width |-> 300000]>>,
        netPoints |-> <<[uuid |-> "np1", pos |-> <<Mm(15), Mm(5)>>, used |-> TRUE]>>]>>,
   !.devices =
     <<[uuid |-> "dev1", pos |-> <<Mm(15), Mm(5)>>, mirror |-> TRUE,
        cmp |-> "cmp1", libDevice |-> "libdevA",
        pads |-> <<[uuid |-> "pad1", pos |-> <<0, 0>>, net |-> "GND",
                    layers |-> {"top_cu"},
                    geometries |-> [l \in {"top_cu"} |->
                                      {<<-400000, -400000, 400000, 400000>>}],
                    holes |-> <<>>,
                    netLines |-> <<"top_cu">>]>>,
        polygons |-> <<Courtyard("cy1", "bot_courtyard", Mm(1))>>,
        circles |-> <<>>, holes |-> <<>>, strokeTexts |-> <<>>]>>,
   !.components =
     <<[uuid |-> "cmp1", schematicOnly |-> FALSE, defaultDevice |-> "libdevA"]>>]

\* A board with three devices whose courtyards overlap pairwise, a pad that
\* is connected on two layers without copper at its origin, and an outline
\* of two parts with a slit between them that is narrower than the tool.
BoardC ==
  [EmptyBoard EXCEPT
   !.polygons =
     <<OutlinePolygon,
       [uuid |-> "pg_outline2", layer |-> "brd_outlines", lineWidth |-> 0,
        filled |-> FALSE, path |-> RectPath(20500000, 0, Mm(25), Mm(10))]>>,
   !.devices =
     [i \in 1..3 |->
        [uuid |-> <<"dev1", "dev2", "dev3">>[i],
         pos |-> <<Mm(4 + i), Mm(5)>>, mirror |-> FALSE,
         cmp |-> <<"cmp1", "cmp2", "cmp3">>[i], libDevice |-> "libdevA",
         pads |-> IF i # 1 THEN <<>>
                  ELSE <<[uuid |-> "pad1", pos |-> <<0, 0>>, net |-> NoNet,
                          layers |-> {"top_cu", "bot_cu"},
                          geometries |-> [l \in {"top_cu", "bot_cu"} |->
                                            {<<100000, 100000, 500000, 500000>>}],
                          holes |-> <<>>,
                          netLines |-> <<"top_cu", "bot_cu">>]>>,
         polygons |-> <<Courtyard(<<"cy1", "cy2", "cy3">>[i], "top_courtyard", Mm(1))>>,
         circles |-> <<>>, holes |-> <<>>, strokeTexts |-> <<>>]],
   !.components =
     [i \in 1..3 |-> [uuid |-> <<"cmp1", "cmp2", "cmp3">>[i],
                      schematicOnly |-> FALSE, defaultDevice |-> NoUuid]]]

Boards == {BoardA, BoardB, BoardC}

\* The plated hole of scenario S2 twice: via1 lies inside a plane of its own
\* net on both copper layers, via2 inside the plane of the top layer only.
\* via3 has a ring of 200 um.
BoardS2 ==
  [EmptyBoard EXCEPT
   !.polygons = <<OutlinePolygon>>,
   !.netSegments =
     <<[uuid |-> "ns1", net |-> "GND",
        vias |-> <<[uuid |-> "via1", pos |-> <<Mm(10), Mm(5)>>,
                    drill |-> 300000, size |-> 500000],
                   [uuid |-> "via2", pos |-> <<Mm(3), Mm(5)>>,
                    drill |-> 300000, size |-> 500000],
                   [uuid |-> "via3", pos |-> <<Mm(3), Mm(7)>>,
                    drill |-> 300000, size |-> 700000]>>,
        netLines |-> <<>>, netPoints |-> <<>>]>>,
   !.planes =
     <<[uuid |-> "pl_top", layer |-> "top_cu", net |-> "GND", minWidth |-> 200000,
        outline |-> RectPath(Mm(1), Mm(1), Mm(19), Mm(9))],
       [uuid |-> "pl_bot", layer |-> "bot_cu", net |-> "GND", minWidth |-> 200000,
        outline |-> RectPath(Mm(6), Mm(1), Mm(19), Mm(9))]>>]

\* A hole of the board, of a footprint or of a pad.
Hole(uuid, path, diameter, curved) ==
  [uuid |-> uuid, diameter |-> diameter, curved |-> curved, path |-> path]

\* The package hole of scenario S4 (fh1) next to board holes and pad holes of
\* every class, on a board without any outline.
BoardS4 ==
  [EmptyBoard EXCEPT
   !.holes =
     <<Hole("h_round", <<<<Mm(2), Mm(2)>>>>, Mm(1), FALSE),
       Hole("h_single", <<<<Mm(2), Mm(4)>>, <<Mm(4), Mm(4)>>>>, Mm(1), FALSE),
       Hole("h_multi", <<<<Mm(2), Mm(6)>>, <<Mm(4), Mm(6)>>, <<Mm(4), Mm(8)>>>>, Mm(1), FALSE),
       Hole("h_curved", <<<<Mm(6), Mm(2)>>, <<Mm(8), Mm(2)>>>>, Mm(1), TRUE)>>,
   !.devices =
     <<[uuid |-> "dev1", pos |-> <<Mm(10), Mm(5)>>, mirror |-> FALSE,
        cmp |-> "cmp1", libDevice |-> "libdevA",
        pads |-> <<[uuid |-> "pad1", pos |-> <<0, Mm(3)>>, net |-> NoNet,
                    layers |-> {"top_cu", "bot_cu"},
                    geometries |-> [l \in {"top_cu", "bot_cu"} |->
                                      {<<-Mm(1), -Mm(1), Mm(8), Mm(1)>>}],
                    holes |-> <<Hole("ph_round", <<<<0, 0>>>>, 800000, FALSE),
                                Hole("ph_single", <<<<Mm(2), 0>>, <<Mm(3), 0>>>>, 800000, FALSE),
                                Hole("ph_multi",
                                     <<<<Mm(4), 0>>, <<Mm(5), 0>>, <<Mm(5), 100000>>>>,
                                     800000, FALSE),
                                Hole("ph_curved", <<<<Mm(6), 0>>, <<Mm(7), 0>>>>,
                                     800000, TRUE)>>,
                    netLines |-> <<>>]>>,
        polygons |-> <<>>, circles |-> <<>>,
        holes |-> <<Hole("fh1", <<<<0, 0>>, <<Mm(5), 0>>>>, 800000, FALSE)>>,
        strokeTexts |-> <<>>]>>,
   !.components =
     <<[uuid |-> "cmp1", schematicOnly |-> FALSE, defaultDevice |-> NoUuid]>>]

\* Scenario S5: the open polygon pg_open of a footprint is the only object on
\* the board outline layer.
BoardS5 ==
  [EmptyBoard EXCEPT
   !.devices =
     <<[uuid |-> "dev1", pos |-> <<Mm(5), Mm(5)>>, mirror |-> FALSE,
        cmp |-> "cmp1", libDevice |-> "libdevA",
        pads |-> <<>>,
        polygons |-> <<[uuid |-> "pg_open", layer |-> "brd_outlines",
                        lineWidth |-> 0, filled |-> FALSE,
                        path |-> <<<<0, 0>>, <<Mm(10), 0>>, <<Mm(10), Mm(5)>>>>],
                       Courtyard("cy1", "top_courtyard", Mm(1))>>,
        circles |-> <<>>, holes |-> <<>>, strokeTexts |-> <<>>]>>,
   !.components =
     <<[uuid |-> "cmp1", schematicOnly |-> FALSE, defaultDevice |-> NoUuid]>>]

\* A courtyard circle of a footprint, centred at the footprint origin.
CourtyardCircle(uuid, layer, diameter) ==
  [uuid |-> uuid, layer |-> layer, center |-> <<0, 0>>, diameter |-> diameter,
   lineWidth |-> 0, filled |-> FALSE]

\* A board for the checks that compare pairs.  Copper: nl1, nl1b and via1 of
\* GND touch each other, nl2 of VCC runs 100 um beside nl1, nl3 of VCC crosses
\* via1 and nl1 on the other layer, pad1 has no net and sits on nl1b.
\* Drills: h1 next to via1, fh1 of dev1 next to ph2 of dev2.  Courtyards: dev1
\* and dev2 overlap on both sides of the board; dev3 is far away from both
\* and its courtyard is a circle, like one of the courtyards of dev1.
BoardPairs ==
  [EmptyBoard EXCEPT
   !.polygons = <<OutlinePolygon>>,
   !.netSegments =
     <<[uuid |-> "ns1", net |-> "GND",
        vias |-> <<[uuid |-> "via1", pos |-> <<Mm(2), Mm(2)>>,
                    drill |-> 300000, size |-> 600000]>>,
        netLines |-> <<[uuid |-> "nl1", layer |-> "top_cu",
                        p1 |-> <<Mm(2), Mm(2)>>, p2 |-> <<Mm(6), Mm(2)>>,
                        width |-> 200000],
                       [uuid |-> "nl1b", layer |-> "top_cu",
                        p1 |-> <<Mm(4), Mm(2)>>, p2 |-> <<Mm(4), Mm(4)>>,
                        width |-> 200000]>>,
        netPoints |-> <<>>],
       [uuid |-> "ns2", net |-> "VCC",
        vias |-> <<>>,
        netLines |-> <<[uuid |-> "nl2", layer |-> "top_cu",
                        p1 |-> <<Mm(5), 2300000>>, p2 |-> <<Mm(6), 2300000>>,
                        width |-> 200000],
                       [uuid |-> "nl3", layer |-> "bot_cu",
                        p1 |-> <<Mm(2), Mm(2)>>, p2 |-> <<Mm(2), Mm(3)>>,
                        width |-> 200000]>>,
        netPoints |-> <<>>]>>,
   !.holes = <<Hole("h1", <<<<2500000, Mm(2)>>>>, 300000, FALSE)>>,
   !.devices =
     <<[uuid |-> "dev1", pos |-> <<Mm(4), Mm(4)>>, mirror |-> FALSE,
        cmp |-> "cmp1", libDevice |-> "libdevA",
        pads |-> <<[uuid |-> "pad1", pos |-> <<0, 0>>, net |-> NoNet,
                    layers |-> {"top_cu"},
                    geometries |-> [l \in {"top_cu"} |->
                                      {<<-300000, -300000, 300000, 300000>>}],
                    holes |-> <<>>, netLines |-> <<>>]>>,
        polygons |-> <<Courtyard("cy1t", "top_courtyard", Mm(1)),
                       Courtyard("cy1b", "bot_courtyard", Mm(1))>>,
        circles |-> <<CourtyardCircle("cc1", "top_courtyard", Mm(1))>>,
        holes |-> <<Hole("fh1", <<<<900000, 0>>>>, 300000, FALSE)>>,
        strokeTexts |-> <<>>],
       [uuid |-> "dev2", pos |-> <<Mm(5), Mm(4)>>, mirror |-> FALSE,
        cmp |-> "cmp2", libDevice |-> "libdevA",
        pads |-> <<[uuid |-> "pad2", pos |-> <<400000, 0>>, net |-> "GND",
                    layers |-> {"top_cu", "bot_cu"},
                    geometries |-> [l \in {"top_cu", "bot_cu"} |->
                                      {<<-300000, -300000, 300000, 300000>>}],
                    holes |-> <<Hole("ph2", <<<<0, 0>>>>, 300000, FALSE)>>,
                    netLines |-> <<>>]>>,
        polygons |-> <<Courtyard("cy2t", "top_courtyard", Mm(1)),
                       Courtyard("cy2b", "bot_courtyard", Mm(1))>>,
        circles |-> <<>>, holes |-> <<>>, strokeTexts |-> <<>>],
       [uuid |-> "dev3", pos |-> <<Mm(16), Mm(7)>>, mirror |-> FALSE,
        cmp |-> "cmp3", libDevice |-> "libdevA",
        pads |-> <<>>, polygons |-> <<>>,
        circles |-> <<CourtyardCircle("cc3", "top_courtyard", Mm(1))>>,
        holes |-> <<>>, strokeTexts |-> <<>>]>>,
   !.components =
     [i \in 1..3 |-> [uuid |-> <<"cmp1", "cmp2", "cmp3">>[i],
                      schematicOnly |-> FALSE, defaultDevice |-> NoUuid]]]

\* A through-hole pad 0.2 mm from the board edge; the pad, the footprint and
\* the board each have a slot that is 0.25 mm wide, the pad a round hole too.
BoardEdge ==
  [EmptyBoard EXCEPT
   !.polygons = <<OutlinePolygon>>,
   !.holes = <<Hole("h_slot", <<<<Mm(10), Mm(5)>>, <<Mm(11), Mm(5)>>>>, 250000, FALSE)>>,
   !.devices =
     <<[uuid |-> "dev1", pos |-> <<600000, Mm(5)>>, mirror |-> FALSE,
        cmp |-> "cmp1", libDevice |-> "libdevA",
        pads |-> <<[uuid |-> "pad1", pos |-> <<0, 0>>, net |-> NoNet,
                    layers |-> {"top_cu", "bot_cu"},
                    geometries |-> [l \in {"top_cu", "bot_cu"} |->
                                      {<<-400000, -400000, 400000, 400000>>}],
                    holes |-> <<Hole("ph_slot", <<<<-100000, 0>>, <<100000, 0>>>>,
                                     250000, FALSE),
                                Hole("ph_round", <<<<0, 200000>>>>, 250000, FALSE)>>,
                    netLines |-> <<>>]>>,
        polygons |-> <<>>, circles |-> <<>>,
        holes |-> <<Hole("fh_slot", <<<<Mm(5), 0>>, <<Mm(6), 0>>>>, 250000, FALSE)>>,
        strokeTexts |-> <<>>]>>,
   !.components =
     <<[uuid |-> "cmp1", schematicOnly |-> FALSE, defaultDevice |-> NoUuid]>>]

\* A board whose outline is the circle of a footprint, 8 mm wide around
\* (10 mm, 5 mm), with a hole 0.15 mm inside its edge.
BoardCircle ==
  [EmptyBoard EXCEPT
   !.holes = <<Hole("h1", <<<<6400000, Mm(5)>>>>, 500000, FALSE)>>,
   !.devices =
     <<[uuid |-> "dev1", pos |-> <<Mm(10), Mm(5)>>, mirror |-> FALSE,
        cmp |-> "cmp1", libDevice |-> "libdevA",
        pads |-> <<>>, polygons |-> <<>>,
        circles |-> <<[uuid |-> "ci_outline", layer |-> "brd_outlines",
                       center |-> <<0, 0>>, diameter |-> Mm(8), lineWidth |-> 0,
                       filled |-> FALSE]>>,
        holes |-> <<>>, strokeTexts |-> <<>>]>>,
   !.components =
     <<[uuid |-> "cmp1", schematicOnly |-> FALSE, defaultDevice |-> NoUuid]>>]

ScenarioBoards == {BoardS2, BoardS4, BoardS5, BoardPairs, BoardEdge, BoardCircle}

\* Two parallel traces of different nets 196 um apart, a trace 298 um from
\* the board edge, a trace that is too thin and a hole that is too small.
BoardS1 ==
  [EmptyBoard EXCEPT
   !.polygons = <<OutlinePolygon>>,
   !.netSegments =
     <<[uuid |-> "ns1", net |-> "GND",
        vias |-> <<>>,
        netLines |-> <<[uuid |-> "nl1", layer |-> "top_cu",
                        p1 |-> <<Mm(5), Mm(3)>>, p2 |-> <<Mm(15), Mm(3)>>,
                        width |-> 200000],
                       [uuid |-> "nl3", layer |-> "top_cu",
                        p1 |-> <<Mm(5), 398000>>, p2 |-> <<Mm(15), 398000>>,
                        width |-> 200000],
                       [uuid |-> "nl4", layer |-> "bot_cu",
                        p1 |-> <<Mm(5), Mm(7)>>, p2 |-> <<Mm(15), Mm(7)>>,
                        width |-> 150000]>>,
        netPoints |-> <<>>],
       [uuid |-> "ns2", net |-> "VCC",
        vias |-> <<>>,
        netLines |-> <<[uuid |-> "nl2", layer |-> "top_cu",
                        p1 |-> <<Mm(5), 3396000>>, p2 |-> <<Mm(15), 3396000>>,
                        width |-> 200000]>>,
        netPoints |-> <<>>]>>,
   !.holes = <<Hole("h1", <<<<Mm(10), Mm(5)>>>>, 296000, FALSE)>>]

\* The boards that are checked at several scales.
ScalingBoards == {BoardA, BoardB, BoardS1}

Reverse(s) == [i \in DOMAIN s |-> s[Len(s) + 1 - i]]

\* All orders of the elements of a set.
Perms(S) ==
  {p \in [1..Cardinality(S) -> S] : \A i, j \in DOMAIN p : p[i] = p[j] => i = j}

\* Board b with its objects listed in another order: the devices in order p,
\* every other list of the board, of its net segments and of its devices
\* back to front.
Relisted(b, p) ==
  LET RelistedDevice(d) ==
        [d EXCEPT !.pads = Reverse(d.pads), !.polygons = Reverse(d.polygons),
                  !.circles = Reverse(d.circles), !.holes = Reverse(d.holes),
                  !.strokeTexts = Reverse(d.strokeTexts)]
      RelistedNetSegment(ns) ==
        [ns EXCEPT !.vias = Reverse(ns.vias), !.netLines = Reverse(ns.netLines)]
  IN  [b EXCEPT
       !.devices = [i \in DOMAIN p |-> RelistedDevice(b.devices[p[i]])],
       !.netSegments = Reverse([i \in DOMAIN b.netSegments |->
                                  RelistedNetSegment(b.netSegments[i])]),
       !.planes = Reverse(b.planes),
       !.polygons = Reverse(b.polygons),
       !.strokeTexts = Reverse(b.strokeTexts),
       !.holes = Reverse(b.holes)]

(***************************************************************************)
(* What a process that holds the board adds to it: the order of the        *)
(* addresses of the BI_Device objects (deviceOrder lists the device        *)
(* indexes by ascending address) and the iteration order of a              *)
(* QSet<const Layer*> (layerOrder).                                        *)
(***************************************************************************)
Heaps(b) ==
  [deviceOrder : Perms(DOMAIN b.devices), layerOrder : Perms(Range(b.copperLayers))]

(***************************************************************************)
(* BoardDesignRuleCheckSettings.  A length of 0 switches a check off, and  *)
(* so does AllowedSlots::Any for the two slot checks.                      *)
(***************************************************************************)
AllowedSlots ==
  [None |-> 0, SingleSegmentStraight |-> 1, MultiSegmentStraight |-> 2, Any |-> 3]

ClearanceFields ==
  {"minCopperCopperClearance", "minCopperBoardClearance", "minCopperNpthClearance",
   "minDrillDrillClearance", "minDrillBoardClearance"}

SettingsOn ==
  [minCopperWidth |-> 200000,
   minCopperCopperClearance |-> 200000,
   minCopperBoardClearance |-> 300000,
   minCopperNpthClearance |-> 250000,
   minDrillDrillClearance |-> 350000,
   minDrillBoardClearance |-> 500000,
   minPthAnnularRing |-> 150000,
   minNpthDrillDiameter |-> 300000,
   minNpthSlotWidth |-> 1000000,
   minPthDrillDiameter |-> 300000,
   minPthSlotWidth |-> 700000,
   allowedNpthSlots |-> AllowedSlots.None,
   allowedPthSlots |-> AllowedSlots.None,
   minOutlineToolDiameter |-> 2000000]

SettingsFields == DOMAIN SettingsOn

SettingsOff(f) ==
  IF f \in {"allowedNpthSlots", "allowedPthSlots"} THEN AllowedSlots.Any ELSE 0

SettingsWithout(off) ==
  [f \in SettingsFields |-> IF f \in off THEN SettingsOff(f) ELSE SettingsOn[f]]

\* The settings records of the model: at most MaxDisabled fields are off,
\* either among all fields or next to the five clearances.
SettingsChoices ==
  {SettingsWithout(off) : off \in {o \in SUBSET SettingsFields : Cardinality(o) <= MaxDisabled}}
  \cup
  {SettingsWithout(ClearanceFields \cup off) :
     off \in {o \in SUBSET (SettingsFields \ ClearanceFields) : Cardinality(o) <= MaxDisabled}}

\* The settings of the scenarios: every pair of slot allowances.
ScenarioSettings ==
  {[SettingsOn EXCEPT !.allowedNpthSlots = npth, !.allowedPthSlots = pth] :
     npth \in Range(AllowedSlots), pth \in Range(AllowedSlots)}

\* Every length of board b multiplied by k.
Scaled(b, k) ==
  LET Point(p) == <<p[1] * k, p[2] * k>>
      ScaledPath(path) == [i \in DOMAIN path |-> Point(path[i])]
      ScaledHole(h) == [h EXCEPT !.diameter = h.diameter * k, !.path = ScaledPath(h.path)]
      Polygon(pg) == [pg EXCEPT !.lineWidth = pg.lineWidth * k, !.path = ScaledPath(pg.path)]
      StrokeText(t) ==
        [t EXCEPT !.strokeWidth = t.strokeWidth * k,
                  !.paths = [i \in DOMAIN t.paths |-> ScaledPath(t.paths[i])]]
      Pad(pad) ==
        [pad EXCEPT
         !.pos = Point(pad.pos),
         !.geometries = [l \in DOMAIN pad.geometries |->
                           {<<r[1] * k, r[2] * k, r[3] * k, r[4] * k>> :
                              r \in pad.geometries[l]}],
         !.holes = [i \in DOMAIN pad.holes |-> ScaledHole(pad.holes[i])]]
      ScaledCircle(c) ==
        [c EXCEPT !.center = Point(c.center), !.diameter = c.diameter * k,
                  !.lineWidth = c.lineWidth * k]
      Device(d) ==
        [d EXCEPT
         !.pos = Point(d.pos),
         !.pads = [i \in DOMAIN d.pads |-> Pad(d.pads[i])],
         !.polygons = [i \in DOMAIN d.polygons |-> Polygon(d.polygons[i])],
         !.circles = [i \in DOMAIN d.circles |-> ScaledCircle(d.circles[i])],
         !.holes = [i \in DOMAIN d.holes |-> ScaledHole(d.holes[i])],
         !.strokeTexts = [i \in DOMAIN d.strokeTexts |-> StrokeText(d.strokeTexts[i])]]
      Via(v) == [v EXCEPT !.pos = Point(v.pos), !.drill = v.drill * k, !.size = v.size * k]
      NetLine(n) == [n EXCEPT !.p1 = Point(n.p1), !.p2 = Point(n.p2), !.width = n.width * k]
      NetPoint(n) == [n EXCEPT !.pos = Point(n.pos)]
      NetSegment(ns) ==
        [ns EXCEPT !.vias = [i \in DOMAIN ns.vias |-> Via(ns.vias[i])],
                   !.netLines = [i \in DOMAIN ns.netLines |-> NetLine(ns.netLines[i])],
                   !.netPoints = [i \in DOMAIN ns.netPoints |-> NetPoint(ns.netPoints[i])]]
      Plane(pl) == [pl EXCEPT !.minWidth = pl.minWidth * k, !.outline = ScaledPath(pl.outline)]
      Unrouted(u) == [u EXCEPT !.pos1 = Point(u.pos1), !.pos2 = Point(u.pos2)]
  IN  [b EXCEPT
       !.netSegments = [i \in DOMAIN b.netSegments |-> NetSegment(b.netSegments[i])],
       !.planes = [i \in DOMAIN b.planes |-> Plane(b.planes[i])],
       !.polygons = [i \in DOMAIN b.polygons |-> Polygon(b.polygons[i])],
       !.strokeTexts = [i \in DOMAIN b.strokeTexts |-> StrokeText(b.strokeTexts[i])],
       !.holes = [i \in DOMAIN b.holes |-> ScaledHole(b.holes[i])],
       !.devices = [i \in DOMAIN b.devices |-> Device(b.devices[i])],
       !.unrouted = [i \in DOMAIN b.unrouted |-> Unrouted(b.unrouted[i])]]

\* Every length of settings s multiplied by k.
ScaledSettings(s, k) ==
  [f \in DOMAIN s |->
     IF f \in {"allowedNpthSlots", "allowedPthSlots"} THEN s[f] ELSE s[f] * k]

(***************************************************************************)
(* State.                                                                  *)
(***************************************************************************)
VARIABLES
  board,            \* mBoard: the objects of the board
  heap,             \* object addresses and hash order of the process
  planeFragments,   \* the filled areas of the planes (BI_Plane::getFragments)
  airWires,         \* the air wires of the board (Board::getAirWires)
  mSettings,
  mIgnorePlanes,
  mProgressPercent,
  mProgressStatus,
  mMessages,
  mCachedPaths,
  quick,            \* the argument of the running execute()
  pc,               \* the statement of execute() that runs next
  signals,          \* the Qt signals emitted by the running execute()
  boardCalls,       \* the non-const calls made on mBoard by the running execute()
  cancelRequested,  \* a cancel request of the caller has been delivered
  cancelledDuring,  \* the statement that was running when it was delivered
  exception,        \* the check whose exception has left execute(), or ""
  stderr,           \* the lines the command line caller has given to printErr()
  runs,             \* the number of execute() calls made on the object so far
  messages,         \* prepareRuleCheckMessages(): the list to report
  approvals,        \* prepareRuleCheckMessages(): the approved keys
  approvedMsgCount, \* prepareRuleCheckMessages(): the counter it sets
  printedMessages,  \* prepareRuleCheckMessages(): the list it returns
  lastMessages,     \* the messages of the run before, as the caller has them
  value,            \* the QString a ComponentSymbolVariantItemSuffix is made from
  suffix,           \* the outcome of that constructor call
  pins,             \* MsgOverlappingSymbolPins: the pins given to the constructor
  mApproval,        \* MsgOverlappingSymbolPins: the children of the approval key
  mIsAddedToCircuit,        \* ComponentSignalInstance
  mNetSignal,               \* ComponentSignalInstance: a net signal or NoNet (null)
  mRegisteredSymbolPins,    \* ComponentSignalInstance: isUsed() of every pin
  mRegisteredFootprintPads, \* ComponentSignalInstance: isUsed() of every pad
  netSignals,       \* the NetSignal objects: added to the circuit, instance registered
  netsignal,        \* the argument of setNetSignal()
  netSignalChanged, \* the netSignalChanged signals emitted
  thrown,           \* the exception that has left setNetSignal(), or ""
  called,           \* the members and net signals as they were at the call
  mText,            \* CmdTextEdit: the text that is edited
  mOld,             \* CmdTextEdit: mOldLayer, mOldText, mOldPosition, ...
  mNew,             \* CmdTextEdit: mNewLayer, mNewText, mNewPosition, ...
  cmd,              \* UndoCommand: "new", "executed", "undone", "redone", "destroyed"
  atConstruction,   \* the text when the command was constructed
  afterExecute,     \* the text when performExecute() had returned
  setterCalls,      \* the number of setters called
  toolState,        \* add-pads tool: "constructed", "entered" or "exited"
  mLastPad,         \* add-pads tool: width, height, drill, position, rotation
  mCurrentPad,      \* add-pads tool: the pad in progress, or NoPad
  mEditCmd,         \* add-pads tool: "null" or "set"
  mCurrentGraphicsItem, \* add-pads tool: "null" or "set"
  edtWidth,         \* the value of the width edit of the toolbar, 0 without toolbar
  edtHeight,        \* the value of the height edit
  edtDrillDiameter, \* the value of the drill diameter edit
  cmdGroupActive,   \* UndoStack: a command group is open
  footprintPads,    \* the footprint: pads placed, and the pad of the open group
  handled,          \* the last event handler and what it returned
  fixedValue,       \* Toolbox: the value given to decimalFixedPointToString()
  pointPos,         \* Toolbox: the number of decimal positions
  fixedStr,         \* Toolbox: the string, a sequence of characters
  result,           \* Toolbox: what decimalFixedPointFromString() returned
  parseError        \* Toolbox: decimalFixedPointFromString() threw RuntimeError

vars ==
  <<board, heap, planeFragments, airWires, mSettings, mIgnorePlanes,
    mProgressPercent, mProgressStatus, mMessages, mCachedPaths, quick, pc,
    signals, boardCalls, cancelRequested, cancelledDuring, exception, stderr,
    runs, messages, approvals, approvedMsgCount, printedMessages, lastMessages,
    value, suffix, pins, mApproval, mIsAddedToCircuit, mNetSignal,
    mRegisteredSymbolPins, mRegisteredFootprintPads, netSignals, netsignal,
    netSignalChanged, thrown, called, mText, mOld, mNew, cmd, atConstruction,
    afterExecute, setterCalls, toolState, mLastPad, mCurrentPad, mEditCmd,
    mCurrentGraphicsItem, edtWidth, edtHeight, edtDrillDiameter, cmdGroupActive,
    footprintPads, handled, fixedValue, pointPos, fixedStr, result, parseError>>

\* The variables of BoardDesignRuleCheck and of its run, without pc.
drcVars ==
  <<board, heap, planeFragments, airWires, mSettings, mIgnorePlanes,
    mProgressPercent, mProgressStatus, mMessages, mCachedPaths, quick,
    signals, boardCalls, cancelRequested, cancelledDuring, exception, stderr,
    runs>>

\* The variables of ComponentSignalInstance::setNetSignal().
signalVars ==
  <<mIsAddedToCircuit, mNetSignal, mRegisteredSymbolPins, mRegisteredFootprintPads,
    netSignals, netsignal, netSignalChanged, thrown, called>>

\* The variables of CmdTextEdit.
textVars == <<mText, mOld, mNew, cmd, atConstruction, afterExecute, setterCalls>>

\* The variables of PackageEditorState_AddPads.
padVars ==
  <<toolState, mLastPad, mCurrentPad, mEditCmd, mCurrentGraphicsItem, edtWidth,
    edtHeight, edtDrillDiameter, cmdGroupActive, footprintPads, handled>>

\* The variables of the fixed point conversions of Toolbox.
fixedVars == <<fixedValue, pointPos, fixedStr, result, parseError>>

\* The variables of the library classes.
libVars == <<pins, mApproval, signalVars, textVars, padVars, fixedVars>>

\* The variables of the functions that are no part of a run of the check.
otherVars ==
  <<messages, approvals, approvedMsgCount, printedMessages, lastMessages,
    value, suffix, libVars>>

\* No object of the library classes exists, but for the class named.
LibraryIdle(except) ==
  /\ IF except = "MsgOverlappingSymbolPins" THEN TRUE
     ELSE pins = <<>> /\ mApproval = <<>>
  /\ IF except = "ComponentSignalInstance" THEN TRUE
     ELSE /\ mIsAddedToCircuit = FALSE
          /\ mNetSignal = NoNet
          /\ mRegisteredSymbolPins = <<>>
          /\ mRegisteredFootprintPads = <<>>
          /\ netSignals = <<>>
          /\ netsignal = NoNet
          /\ netSignalChanged = <<>>
          /\ thrown = ""
          /\ called = <<>>
  /\ IF except = "CmdTextEdit" THEN TRUE
     ELSE /\ mText = <<>>
          /\ mOld = <<>>
          /\ mNew = <<>>
          /\ cmd = ""
          /\ atConstruction = <<>>
          /\ afterExecute = <<>>
          /\ setterCalls = 0
  /\ IF except = "PackageEditorState_AddPads" THEN TRUE
     ELSE /\ toolState = ""
          /\ mLastPad = <<>>
          /\ mCurrentPad = <<>>
          /\ mEditCmd = "null"
          /\ mCurrentGraphicsItem = "null"
          /\ edtWidth = 0
          /\ edtHeight = 0
          /\ edtDrillDiameter = 0
          /\ cmdGroupActive = FALSE
          /\ footprintPads = <<>>
          /\ handled = <<>>
  /\ IF except = "Toolbox" THEN TRUE
     ELSE /\ fixedValue = 0
          /\ pointPos = 0
          /\ fixedStr = <<>>
          /\ result = 0
          /\ parseError = FALSE

\* No constructor of ComponentSymbolVariantItemSuffix has been called.
NoSuffix == [state |-> "none", value |-> <<>>]

(***************************************************************************)
(* RuleCheckMessage: the kind, the objects given to the constructor of the *)
(* message class and the locations.                                        *)
(***************************************************************************)
Msg(kind, objs, locations) == [kind |-> kind, objs |-> objs, locations |-> locations]

IsCopper(layer) == layer \in Range(board.copperLayers)

DeviceTransform(device) == [pos |-> device.pos, mirror |-> device.mirror]

\* Transform(pad): the pad as placed on the board.
PadTransform(device, pad) ==
  [pos |-> MapPoint(DeviceTransform(device), pad.pos), mirror |-> device.mirror]

(***************************************************************************)
(* BoardClipperPathGenerator.                                              *)
(***************************************************************************)
addVia(via, off) == convert(circle(via.size + 2 * off, via.pos))

addNetLine(netLine, off) == {obround(netLine.p1, netLine.p2, netLine.width + 2 * off)}

addPlane(plane) == planeFragments[plane.uuid]

addPolygon(polygon, transform) ==
  LET path == MapPath(transform, polygon.path)
  IN  (IF polygon.lineWidth > 0 THEN toOutlineStrokes(path, polygon.lineWidth) ELSE {})
      \cup (IF polygon.filled /\ isClosed(path) THEN convert(path) ELSE {})

addStrokeText(text, off) ==
  UNION {toOutlineStrokes(text.paths[i], text.strokeWidth + 2 * off) : i \in DOMAIN text.paths}

addCircle(c, transform, off) ==
  convert(circle(c.diameter + c.lineWidth + 2 * off, MapPoint(transform, c.center)))

addHole(hole, transform, off) ==
  toOutlineStrokes(MapPath(transform, hole.path), Max(hole.diameter + 2 * off, 1))

addPad(device, pad, layer, off) ==
  IF layer \notin DOMAIN pad.geometries THEN {}
  ELSE {Inflate(MapRect(PadTransform(device, pad), r), off) : r \in pad.geometries[layer]}

AllVias == FlatMap(board.netSegments, LAMBDA ns : ns.vias)

AllNetLines == FlatMap(board.netSegments, LAMBDA ns : ns.netLines)

\* The <<device, x>> pairs of the devices' members, device by device.
DeviceMembers(Members(_)) ==
  FlatMap(board.devices, LAMBDA d : [i \in DOMAIN Members(d) |-> <<d, Members(d)[i]>>])

DevicePads == DeviceMembers(LAMBDA d : d.pads)

DevicePolygons == DeviceMembers(LAMBDA d : d.polygons)

DeviceCircles == DeviceMembers(LAMBDA d : d.circles)

DeviceHoles == DeviceMembers(LAMBDA d : d.holes)

DeviceStrokeTexts == DeviceMembers(LAMBDA d : d.strokeTexts)

\* The <<device, pad, hole>> triples of the pad holes, pad by pad.
DevicePadHoles ==
  FlatMap(DevicePads,
          LAMBDA dp : [i \in DOMAIN dp[2].holes |-> <<dp[1], dp[2], dp[2].holes[i]>>])

\* addCopper(layer, {}, ignorePlanes): all copper of a layer, of every net.
addCopper(layer, ignorePlanes) ==
  UNION ({addVia(v, 0) : v \in Range(AllVias)}
         \cup {IF n.layer = layer THEN addNetLine(n, 0) ELSE {} : n \in Range(AllNetLines)}
         \cup {IF ~ignorePlanes /\ p.layer = layer THEN addPlane(p) ELSE {} :
                 p \in Range(board.planes)}
         \cup {IF p.layer = layer THEN addPolygon(p, NoTransform) ELSE {} :
                 p \in Range(board.polygons)}
         \cup {IF t.layer = layer THEN addStrokeText(t, 0) ELSE {} :
                 t \in Range(board.strokeTexts)}
         \cup {IF layer \in dp[2].layers THEN addPad(dp[1], dp[2], layer, 0) ELSE {} :
                 dp \in Range(DevicePads)}
         \cup {IF MapLayer(DeviceTransform(dp[1]), dp[2].layer) = layer
               THEN addPolygon(dp[2], DeviceTransform(dp[1])) ELSE {} :
                 dp \in Range(DevicePolygons)}
         \cup {IF MapLayer(DeviceTransform(dc[1]), dc[2].layer) = layer
               THEN addCircle(dc[2], DeviceTransform(dc[1]), 0) ELSE {} :
                 dc \in Range(DeviceCircles)}
         \cup {IF dt[2].layer = layer THEN addStrokeText(dt[2], 0) ELSE {} :
                 dt \in Range(DeviceStrokeTexts)})

(***************************************************************************)
(* Helpers of the checks.                                                  *)
(***************************************************************************)
\* getCopperPaths with true given to addCopper() for ignorePlanes.
getCopperPathsWithoutPlanes(cache, layer) ==
  IF <<layer, {}>> \in DOMAIN cache THEN cache[<<layer, {}>>]
  ELSE addCopper(layer, TRUE)

\* The copper areas of a layer as getCopperPaths() returns them, given the
\* cache: a cached entry wins over the board.
getCopperPaths(cache, layer) ==
  IF <<layer, {}>> \in DOMAIN cache THEN cache[<<layer, {}>>]
  ELSE addCopper(layer, mIgnorePlanes)

\* mCachedPaths after getCopperPaths() has been called for every copper layer.
CacheAfterAllLayers ==
  [k \in DOMAIN mCachedPaths \cup {<<l, {}>> : l \in Range(board.copperLayers)} |->
     getCopperPaths(mCachedPaths, k[1])]

getBoardClearanceArea(clearance) ==
  LET clearanceWidth == Max(clearance + clearance - maxArcTolerance - 1, 1)
  IN  UNION ({IF p.layer = "brd_outlines" THEN toOutlineStrokes(p.path, clearanceWidth) ELSE {} :
                p \in Range(board.polygons)}
             \cup {IF dp[2].layer = "brd_outlines"
                   THEN toOutlineStrokes(MapPath(DeviceTransform(dp[1]), dp[2].path),
                                         clearanceWidth)
                   ELSE {} : dp \in Range(DevicePolygons)})

\* PairsInOrder with an inner loop that stops after its first round.
PairsInOrderNeighbours(n) == [i \in 1..(n - 1) |-> <<i, i + 1>>]

\* The index pairs <<i, k>>, i < k <= n, in the order of the two nested loops.
PairsInOrder(n) ==
  Concat([i \in 1..n |-> [d \in 1..(n - i) |-> <<i, i + d>>]])

\* One message for every element of a sequence that yields one.
Collect(s, Test(_), Make(_)) ==
  LET kept == SelectSeq(s, Test) IN [i \in DOMAIN kept |-> Make(kept[i])]

(***************************************************************************)
(* The checks.  For every check: the messages it emits, in order, once it  *)
(* is past its early return.                                               *)
(***************************************************************************)
StrokeTextLocations(text) ==
  UNION {toOutlineStrokes(text.paths[i], Max(text.strokeWidth, 50000)) : i \in DOMAIN text.paths}

MinimumCopperWidthMessages ==
  LET minWidth == mSettings.minCopperWidth
      TextMsg(t) == Msg("MinimumWidthViolation", <<"stroketext", t.uuid>>, StrokeTextLocations(t))
  IN  Collect(board.strokeTexts,
              LAMBDA t : IsCopper(t.layer) /\ t.strokeWidth < minWidth, TextMsg)
      \o Collect(board.planes,
                 LAMBDA p : IsCopper(p.layer) /\ p.minWidth < minWidth,
                 LAMBDA p : Msg("MinimumWidthViolation", <<"plane", p.uuid>>,
                                toOutlineStrokes(p.outline, 200000)))
      \o Collect(DeviceStrokeTexts,
                 LAMBDA dt : IsCopper(dt[2].layer) /\ dt[2].strokeWidth < minWidth,
                 LAMBDA dt : TextMsg(dt[2]))
      \o Collect(AllNetLines,
                 LAMBDA n : IsCopper(n.layer) /\ n.width < minWidth,
                 LAMBDA n : Msg("MinimumWidthViolation", <<"netline", n.uuid>>,
                                {obround(n.p1, n.p2, n.width)}))

\* struct Item of checkCopperCopperClearances(); layer "" is a null layer
\* (THT), net NoNet a null net signal.
CopperItem(item, polygon, circ, layer, net, areas) ==
  [item |-> item, polygon |-> polygon, circle |-> circ, layer |-> layer,
   netSignal |-> net, areas |-> areas]

CopperItemsOfDevice(d, off) ==
  LET t == DeviceTransform(d)
  IN  FlatMap(d.pads,
              LAMBDA pad :
                Collect(board.copperLayers, LAMBDA l : l \in pad.layers,
                        LAMBDA l : CopperItem(<<"pad", pad.uuid>>, NoUuid, NoUuid, l,
                                              pad.net, addPad(d, pad, l, off))))
      \o Collect(d.polygons, LAMBDA p : IsCopper(p.layer),
                 LAMBDA p : CopperItem(<<"device", d.uuid>>, p.uuid, NoUuid, p.layer, NoNet,
                                       offset(addPolygon(p, t), off)))
      \o Collect(d.circles, LAMBDA c : IsCopper(c.layer),
                 LAMBDA c : CopperItem(<<"device", d.uuid>>, NoUuid, c.uuid, c.layer, NoNet,
                                       addCircle(c, t, off)))
      \o Collect(d.strokeTexts, LAMBDA x : IsCopper(x.layer),
                 LAMBDA x : CopperItem(<<"stroketext", x.uuid>>, NoUuid, NoUuid, x.layer,
                                       NoNet, addStrokeText(x, off)))

CopperItems(off) ==
  FlatMap(board.netSegments,
          LAMBDA ns :
            [i \in DOMAIN ns.vias |->
               CopperItem(<<"via", ns.vias[i].uuid>>, NoUuid, NoUuid, "", ns.net,
                          addVia(ns.vias[i], off))]
            \o Collect(ns.netLines, LAMBDA n : IsCopper(n.layer),
                       LAMBDA n : CopperItem(<<"netline", n.uuid>>, NoUuid, NoUuid, n.layer,
                                             ns.net, addNetLine(n, off))))
  \o (IF mIgnorePlanes THEN <<>>
      ELSE Collect(board.planes, LAMBDA p : IsCopper(p.layer),
                   LAMBDA p : CopperItem(<<"plane", p.uuid>>, NoUuid, NoUuid, p.layer, p.net,
                                         offset(addPlane(p), off))))
  \o Collect(board.polygons, LAMBDA p : IsCopper(p.layer),
             LAMBDA p : CopperItem(<<"polygon", p.uuid>>, NoUuid, NoUuid, p.layer, NoNet,
                                   offset(addPolygon(p, NoTransform), off)))
  \o Collect(board.strokeTexts, LAMBDA x : IsCopper(x.layer),
             LAMBDA x : CopperItem(<<"stroketext", x.uuid>>, NoUuid, NoUuid, x.layer, NoNet,
                                   addStrokeText(x, off)))
  \o FlatMap(board.devices, LAMBDA d : CopperItemsOfDevice(d, off))

\* CopperPairTested without the items that have no layer.
CopperPairTestedSameLayerOnly(it1, it2) ==
  /\ it1.netSignal # it2.netSignal \/ it1.netSignal = NoNet \/ it2.netSignal = NoNet
  /\ it1.layer = it2.layer

\* The condition under which two copper items are tested against each other.
CopperPairTested(it1, it2) ==
  /\ it1.netSignal # it2.netSignal \/ it1.netSignal = NoNet \/ it2.netSignal = NoNet
  /\ it1.layer = "" \/ it2.layer = "" \/ it1.layer = it2.layer

CopperCopperClearanceMessages ==
  LET clearance == mSettings.minCopperCopperClearance
      off == Max(((clearance - maxArcTolerance) \div 2) - 1, 0)
      items == CopperItems(off)
  IN  Collect(PairsInOrder(Len(items)),
              LAMBDA ik : /\ CopperPairTested(items[ik[1]], items[ik[2]])
                          /\ intersect(items[ik[1]].areas, items[ik[2]].areas) # {},
              LAMBDA ik :
                LET it1 == items[ik[1]]
                    it2 == items[ik[2]]
                IN  Msg("CopperCopperClearanceViolation",
                        <<it1.layer, it1.netSignal, it1.item, it1.polygon, it1.circle,
                          it2.layer, it2.netSignal, it2.item, it2.polygon, it2.circle>>,
                        intersect(it1.areas, it2.areas)))

\* The objects checkCopperBoardClearances() tests, in order, with their areas.
CopperBoardObjects ==
  FlatMap(board.netSegments,
          LAMBDA ns : [i \in DOMAIN ns.vias |->
                         <<<<"via", ns.vias[i].uuid>>, addVia(ns.vias[i], 0)>>]
                      \o [i \in DOMAIN ns.netLines |->
                            <<<<"netline", ns.netLines[i].uuid>>, addNetLine(ns.netLines[i], 0)>>])
  \o (IF mIgnorePlanes THEN <<>>
      ELSE [i \in DOMAIN board.planes |->
              <<<<"plane", board.planes[i].uuid>>, addPlane(board.planes[i])>>])
  \o Collect(board.polygons, LAMBDA p : IsCopper(p.layer),
             LAMBDA p : <<<<NoUuid, "polygon", p.uuid>>, addPolygon(p, NoTransform)>>)
  \o Collect(board.strokeTexts, LAMBDA x : IsCopper(x.layer),
             LAMBDA x : <<<<NoUuid, "stroketext", x.uuid>>, addStrokeText(x, 0)>>)
  \o FlatMap(board.devices,
             LAMBDA d :
               FlatMap(d.pads,
                       LAMBDA pad :
                         Collect(board.copperLayers, LAMBDA l : l \in pad.layers,
                                 LAMBDA l : <<<<"pad", pad.uuid>>, addPad(d, pad, l, 0)>>))
               \o Collect(d.polygons, LAMBDA p : IsCopper(p.layer),
                          LAMBDA p : <<<<d.uuid, "polygon", p.uuid>>,
                                       addPolygon(p, DeviceTransform(d))>>)
               \o Collect(d.circles, LAMBDA c : IsCopper(c.layer),
                          LAMBDA c : <<<<d.uuid, "circle", c.uuid>>,
                                       addCircle(c, DeviceTransform(d), 0)>>)
               \o Collect(d.strokeTexts, LAMBDA x : IsCopper(x.layer),
                          LAMBDA x : <<<<d.uuid, "stroketext", x.uuid>>, addStrokeText(x, 0)>>))

CopperBoardClearanceMessages ==
  LET restrictedArea == getBoardClearanceArea(mSettings.minCopperBoardClearance)
  IN  Collect(CopperBoardObjects,
              LAMBDA o : intersect(restrictedArea, o[2]) # {},
              LAMBDA o : Msg("CopperBoardClearanceViolation", o[1],
                             intersect(restrictedArea, o[2])))

\* The NPTH holes of the board and of the footprints: <<owner, hole, transform>>.
NpthHoles ==
  [i \in DOMAIN board.holes |-> <<NoUuid, board.holes[i], NoTransform>>]
  \o [i \in DOMAIN DeviceHoles |->
        <<DeviceHoles[i][1].uuid, DeviceHoles[i][2], DeviceTransform(DeviceHoles[i][1])>>]

\* The messages of checkCopperHoleClearances() when mCachedPaths is cache at
\* its start.
CopperHoleClearanceMessagesWith(cache) ==
  LET clearance == mSettings.minCopperNpthClearance
      copperAreas == UNION {getCopperPaths(cache, l) : l \in Range(board.copperLayers)}
      Hit(h) == intersect(copperAreas,
                          addHole(h[2], h[3], clearance - maxArcTolerance - 1))
  IN  Collect(NpthHoles, LAMBDA h : Hit(h) # {},
              LAMBDA h : Msg("CopperHoleClearanceViolation", <<h[1], h[2].uuid>>, Hit(h)))

CopperHoleClearanceMessages == CopperHoleClearanceMessagesWith(mCachedPaths)

\* struct Item of checkDrillDrillClearances(): <<item, hole uuid, path, diameter>>.
Drills ==
  [i \in DOMAIN AllVias |->
     <<<<"via", AllVias[i].uuid>>, AllVias[i].uuid, <<AllVias[i].pos>>, AllVias[i].drill>>]
  \o [i \in DOMAIN board.holes |->
        <<<<"hole", board.holes[i].uuid>>, board.holes[i].uuid, board.holes[i].path,
          board.holes[i].diameter>>]
  \o FlatMap(board.devices,
             LAMBDA d :
               FlatMap(d.pads,
                       LAMBDA pad :
                         [i \in DOMAIN pad.holes |->
                            <<<<"pad", pad.uuid>>, pad.holes[i].uuid,
                              MapPath(PadTransform(d, pad), pad.holes[i].path),
                              pad.holes[i].diameter>>])
               \o [i \in DOMAIN d.holes |->
                     <<<<"device", d.uuid>>, d.holes[i].uuid,
                       MapPath(DeviceTransform(d), d.holes[i].path), d.holes[i].diameter>>])

DrillDrillClearanceMessages ==
  LET clearance == mSettings.minDrillDrillClearance
      diameterExpansion == Max(clearance - maxArcTolerance - 1, 0)
      items == Drills
      Area(it) == toOutlineStrokes(it[3], it[4] + diameterExpansion)
  IN  Collect(PairsInOrder(Len(items)),
              LAMBDA ik : intersect(Area(items[ik[1]]), Area(items[ik[2]])) # {},
              LAMBDA ik : Msg("DrillDrillClearanceViolation",
                              <<items[ik[1]][1], items[ik[1]][2],
                                items[ik[2]][1], items[ik[2]][2]>>,
                              intersect(Area(items[ik[1]]), Area(items[ik[2]]))))

\* The objects a DrcMsgDrillBoardClearanceViolation names for a drill.
DrillBoardObjects(it) ==
  IF it[1][1] = "hole" THEN <<NoUuid, it[2]>>
  ELSE IF it[1][1] = "via" THEN <<it[1]>>
  ELSE <<it[1], it[2]>>

DrillBoardClearanceMessages ==
  LET restrictedArea == getBoardClearanceArea(mSettings.minDrillBoardClearance)
      Hit(it) == intersect(restrictedArea, toOutlineStrokes(it[3], it[4]))
  IN  Collect(Drills, LAMBDA it : Hit(it) # {},
              LAMBDA it : Msg("DrillBoardClearanceViolation", DrillBoardObjects(it), Hit(it)))

\* The messages of checkMinimumPthAnnularRing() when mCachedPaths is cache at
\* its start.
MinimumPthAnnularRingMessagesWith(cache) ==
  LET annularWidth == mSettings.minPthAnnularRing
      thtCopperAreaPaths ==
        intersectAll([i \in DOMAIN board.copperLayers |->
                        getCopperPaths(cache, board.copperLayers[i])])
      ViaRemaining(via) ==
        LET diameter == via.drill + (annularWidth * 2) - 1
        IN  IF diameter <= 0 THEN {}
            ELSE subtract(convert(circle(diameter, via.pos)), thtCopperAreaPaths)
      PadAreas(dp) ==
        UNION {LET hole == dp[2].holes[i]
                   diameter == hole.diameter + (annularWidth * 2) - 1
               IN  IF diameter <= 0 THEN {}
                   ELSE toOutlineStrokes(MapPath(PadTransform(dp[1], dp[2]), hole.path),
                                         diameter) : i \in DOMAIN dp[2].holes}
      PadRemaining(dp) == subtract(PadAreas(dp), thtCopperAreaPaths)
  IN  Collect(AllVias, LAMBDA via : ViaRemaining(via) # {},
              LAMBDA via : Msg("MinimumAnnularRingViolation", <<"via", via.uuid>>,
                               ViaRemaining(via)))
      \o Collect(DevicePads, LAMBDA dp : PadRemaining(dp) # {},
                 LAMBDA dp : Msg("MinimumAnnularRingViolation", <<"pad", dp[2].uuid>>,
                                 PadRemaining(dp)))

MinimumPthAnnularRingMessages == MinimumPthAnnularRingMessagesWith(mCachedPaths)

\* Hole::isSlot(), isMultiSegmentSlot(), isCurvedSlot().
isSlot(hole) == Len(hole.path) > 1

isMultiSegmentSlot(hole) == Len(hole.path) > 2

isCurvedSlot(hole) == hole.curved

getHoleLocation(hole, transform) ==
  toOutlineStrokes(MapPath(transform, hole.path), hole.diameter)

\* MinimumNpthDrillDiameterMessages with the arc tolerance taken off the
\* minimum diameter.
MinimumNpthDrillDiameterMessagesWithTolerance ==
  Collect(NpthHoles,
          LAMBDA h : /\ ~isSlot(h[2])
                     /\ h[2].diameter < mSettings.minNpthDrillDiameter - maxArcTolerance,
          LAMBDA h : Msg("MinimumDrillDiameterViolation", <<h[1], h[2].uuid>>,
                         getHoleLocation(h[2], h[3])))

\* checkMinimumNpthDrillDiameter().
MinimumNpthDrillDiameterMessages ==
  Collect(NpthHoles,
          LAMBDA h : ~isSlot(h[2]) /\ h[2].diameter < mSettings.minNpthDrillDiameter,
          LAMBDA h : Msg("MinimumDrillDiameterViolation", <<h[1], h[2].uuid>>,
                         getHoleLocation(h[2], h[3])))

MinimumNpthSlotWidthMessages ==
  Collect(NpthHoles,
          LAMBDA h : isSlot(h[2]) /\ h[2].diameter < mSettings.minNpthSlotWidth,
          LAMBDA h : Msg("MinimumSlotWidthViolation", <<h[1], h[2].uuid>>,
                         getHoleLocation(h[2], h[3])))

MinimumPthDrillDiameterMessages ==
  Collect(AllVias, LAMBDA via : via.drill < mSettings.minPthDrillDiameter,
          LAMBDA via : Msg("MinimumDrillDiameterViolation", <<"via", via.uuid>>,
                           convert(circle(via.drill, via.pos))))
  \o Collect(DevicePadHoles,
             LAMBDA h : h[3].diameter < mSettings.minPthDrillDiameter,
             LAMBDA h : Msg("MinimumDrillDiameterViolation", <<"pad", h[2].uuid, h[3].uuid>>,
                            convert(circle(Max(h[3].diameter, 50000),
                                           PadTransform(h[1], h[2]).pos))))

MinimumPthSlotWidthMessages ==
  Collect(DevicePadHoles,
          LAMBDA h : isSlot(h[3]) /\ h[3].diameter < mSettings.minPthSlotWidth,
          LAMBDA h : Msg("MinimumSlotWidthViolation", <<"pad", h[2].uuid, h[3].uuid>>,
                         getHoleLocation(h[3], PadTransform(h[1], h[2]))))

\* requiresHoleSlotWarning with <= in the test of the single-segment slot.
requiresHoleSlotWarningOffByOne(hole, allowed) ==
  IF isCurvedSlot(hole) /\ allowed < AllowedSlots.Any THEN TRUE
  ELSE IF isMultiSegmentSlot(hole) /\ allowed < AllowedSlots.MultiSegmentStraight THEN TRUE
  ELSE IF isSlot(hole) /\ allowed <= AllowedSlots.SingleSegmentStraight THEN TRUE
  ELSE FALSE

requiresHoleSlotWarning(hole, allowed) ==
  IF isCurvedSlot(hole) /\ allowed < AllowedSlots.Any THEN TRUE
  ELSE IF isMultiSegmentSlot(hole) /\ allowed < AllowedSlots.MultiSegmentStraight THEN TRUE
  ELSE IF isSlot(hole) /\ allowed < AllowedSlots.SingleSegmentStraight THEN TRUE
  ELSE FALSE

AllowedNpthSlotsMessages ==
  Collect(NpthHoles,
          LAMBDA h : requiresHoleSlotWarning(h[2], mSettings.allowedNpthSlots),
          LAMBDA h : Msg("ForbiddenSlot",
                         IF h[1] = NoUuid THEN <<"hole", h[2].uuid>>
                         ELSE <<"device", h[1], h[2].uuid>>,
                         getHoleLocation(h[2], h[3])))

AllowedPthSlotsMessages ==
  Collect(DevicePadHoles,
          LAMBDA h : requiresHoleSlotWarning(h[3], mSettings.allowedPthSlots),
          LAMBDA h : Msg("ForbiddenSlot", <<"pad", h[2].uuid, h[3].uuid>>,
                         getHoleLocation(h[3], PadTransform(h[1], h[2]))))

\* PadGeometry::toFilledQPainterPathPx().contains(QPointF(0, 0)).
ContainsOrigin(r) == r[1] <= 0 /\ 0 <= r[3] /\ r[2] <= 0 /\ 0 <= r[4]

\* The layers of the net lines of a pad in the iteration order of the QSet
\* that collects them.
ConnectedLayers(layerOrder, pad) ==
  SelectSeq(layerOrder, LAMBDA l : l \in Range(pad.netLines))

\* The messages of checkInvalidPadConnections() when a QSet of layers is
\* iterated in the given order.
InvalidPadConnectionMessagesIn(layerOrder) ==
  FlatMap(DevicePads,
          LAMBDA dp :
            Collect(ConnectedLayers(layerOrder, dp[2]),
                    LAMBDA l : ~\E r \in (IF l \in DOMAIN dp[2].geometries
                                          THEN dp[2].geometries[l] ELSE {}) : ContainsOrigin(r),
                    LAMBDA l : Msg("InvalidPadConnection", <<dp[2].uuid, l>>,
                                   convert(circle(500000, PadTransform(dp[1], dp[2]).pos)))))

getDeviceCourtyardPaths(device, layer) ==
  LET transform == DeviceTransform(device)
  IN  UNION ({IF MapLayer(transform, p.layer) = layer
              THEN convert(MapPath(transform, p.path)) ELSE {} : p \in Range(device.polygons)}
             \cup {IF MapLayer(transform, c.layer) = layer
                   THEN convert(circle(c.diameter, <<0, 0>>)) ELSE {} :
                     c \in Range(device.circles)})

\* The keys of the QMap<const BI_Device*, Paths>: the devices by address.
DevicesByAddress == [i \in DOMAIN heap.deviceOrder |-> board.devices[heap.deviceOrder[i]]]

InvalidPadConnectionMessages == InvalidPadConnectionMessagesIn(heap.layerOrder)

CourtyardMessagesOfLayer(layer, devices) ==
  Collect(PairsInOrder(Len(devices)),
          LAMBDA ik : intersect(getDeviceCourtyardPaths(devices[ik[1]], layer),
                                getDeviceCourtyardPaths(devices[ik[2]], layer)) # {},
          LAMBDA ik : Msg("CourtyardOverlap", <<devices[ik[1]].uuid, devices[ik[2]].uuid>>,
                          intersect(getDeviceCourtyardPaths(devices[ik[1]], layer),
                                    getDeviceCourtyardPaths(devices[ik[2]], layer))))

CourtyardClearanceMessages ==
  CourtyardMessagesOfLayer("top_courtyard", DevicesByAddress)
  \o CourtyardMessagesOfLayer("bot_courtyard", DevicesByAddress)

\* ClipperHelpers::offset() with a negative offset: the area shrunk by d.
erode(area, d) ==
  IF area = {} THEN {}
  ELSE LET box == Inflate(<<CHOOSE v \in XCuts(area) : \A u \in XCuts(area) : v <= u,
                            CHOOSE v \in YCuts(area) : \A u \in YCuts(area) : v <= u,
                            CHOOSE v \in XCuts(area) : \A u \in XCuts(area) : v >= u,
                            CHOOSE v \in YCuts(area) : \A u \in YCuts(area) : v >= u>>, d + 1)
           outside == subtract({box}, area)
       IN  subtract({box}, offset(outside, d))

\* BoardOutlines with the path of a footprint polygon appended only if it is
\* closed.
BoardOutlinesClosedOnly ==
  Collect(board.polygons, LAMBDA p : p.layer = "brd_outlines", LAMBDA p : p.path)
  \o FlatMap(board.devices,
             LAMBDA d :
               Collect(d.polygons,
                       LAMBDA p : /\ p.layer = "brd_outlines"
                                  /\ isClosed(MapPath(DeviceTransform(d), p.path)),
                       LAMBDA p : MapPath(DeviceTransform(d), p.path))
               \o Collect(d.circles, LAMBDA c : c.layer = "brd_outlines",
                          LAMBDA c : circle(c.diameter, MapPoint(DeviceTransform(d), c.center))))

\* The board outline objects checkBoardOutline() collects.
BoardOutlines ==
  Collect(board.polygons, LAMBDA p : p.layer = "brd_outlines", LAMBDA p : p.path)
  \o FlatMap(board.devices,
             LAMBDA d :
               Collect(d.polygons, LAMBDA p : p.layer = "brd_outlines",
                       LAMBDA p : MapPath(DeviceTransform(d), p.path))
               \o Collect(d.circles, LAMBDA c : c.layer = "brd_outlines",
                          LAMBDA c : circle(c.diameter, MapPoint(DeviceTransform(d), c.center))))

BoardOutlineMessages ==
  LET outlines == BoardOutlines
      drawnBoardArea == UNION {convert(outlines[i]) : i \in DOMAIN outlines}
      minEdgeRadius == mSettings.minOutlineToolDiameter \div 2
      offset1 == Max(minEdgeRadius - 10000, 0)
      nonManufacturableAreas ==
        subtract(erode(offset(drawnBoardArea, offset1), minEdgeRadius), drawnBoardArea)
  IN  Collect(DevicePolygons,
              LAMBDA dp : /\ dp[2].layer = "brd_outlines"
                          /\ ~isClosed(MapPath(DeviceTransform(dp[1]), dp[2].path)),
              LAMBDA dp : Msg("OpenBoardOutlinePolygon", <<dp[1].uuid, dp[2].uuid>>,
                              toOutlineStrokes(MapPath(DeviceTransform(dp[1]), dp[2].path),
                                               Max(dp[2].lineWidth, 100000))))
      \o (IF outlines = <<>> THEN <<Msg("MissingBoardOutline", <<>>, {})>> ELSE <<>>)
      \o (IF Cardinality(drawnBoardArea) > 1
          THEN <<Msg("MultipleBoardOutlines", <<>>, drawnBoardArea)>> ELSE <<>>)
      \o (IF minEdgeRadius > 0 /\ nonManufacturableAreas # {}
          THEN <<Msg("MinimumBoardOutlineInnerRadiusViolation", <<>>, nonManufacturableAreas)>>
          ELSE <<>>)

\* Board::getDeviceInstanceByComponentUuid() finds a device.
HasDevice(cmpUuid) == \E d \in Range(board.devices) : d.cmp = cmpUuid

UnplacedComponentMessages ==
  Collect(board.components, LAMBDA c : ~HasDevice(c.uuid) /\ ~c.schematicOnly,
          LAMBDA c : Msg("MissingDevice", <<c.uuid>>, {}))

ComponentOf(device) == CHOOSE c \in Range(board.components) : c.uuid = device.cmp

\* getDeviceLocation(): the origin cross of the device (none of the boards
\* has drawings on the documentation or placement layers).
getDeviceLocation(device) ==
  {obround(<<device.pos[1] - 500000, device.pos[2]>>,
           <<device.pos[1] + 500000, device.pos[2]>>, 50000),
   obround(<<device.pos[1], device.pos[2] - 500000>>,
           <<device.pos[1], device.pos[2] + 500000>>, 50000)}

CircuitDefaultDeviceMessages ==
  Collect(board.devices,
          LAMBDA d : /\ ComponentOf(d).defaultDevice # NoUuid
                     /\ ComponentOf(d).defaultDevice # d.libDevice,
          LAMBDA d : Msg("DefaultDeviceMismatch", <<d.cmp>>, getDeviceLocation(d)))

\* The messages for the air wires that Board::forceAirWiresRebuild() leaves.
MissingConnectionMessages(wires) ==
  [i \in DOMAIN wires |->
     Msg("MissingConnection", <<wires[i].p1, wires[i].p2, wires[i].net>>,
         {obround(wires[i].pos1, wires[i].pos2, 50000)})]

\* BI_NetSegment::isUsed().
NetSegmentIsUsed(ns) == ns.vias # <<>> \/ ns.netLines # <<>> \/ ns.netPoints # <<>>

StaleObjectMessages ==
  FlatMap(board.netSegments,
          LAMBDA ns :
            (IF ~NetSegmentIsUsed(ns) THEN <<Msg("EmptyNetSegment", <<ns.uuid>>, {})>> ELSE <<>>)
            \o Collect(ns.netPoints, LAMBDA np : ~np.used,
                       LAMBDA np : Msg("UnconnectedJunction", <<np.uuid>>,
                                       convert(circle(300000, np.pos)))))

(***************************************************************************)
(* BoardDesignRuleCheck::execute().                                        *)
(***************************************************************************)
\* ExecuteOrder with the two drill diameter checks before the two slot width
\* checks.
ExecuteOrderDrillsFirst ==
  <<<<"checkMinimumCopperWidth", 14>>,
    <<"checkCopperCopperClearances", 24>>,
    <<"checkCopperBoardClearances", 34>>,
    <<"checkCopperHoleClearances", 44>>,
    <<"checkDrillDrillClearances", 49>>,
    <<"checkDrillBoardClearances", 54>>,
    <<"checkMinimumPthAnnularRing", 64>>,
    <<"checkMinimumNpthDrillDiameter", 66>>,
    <<"checkMinimumPthDrillDiameter", 68>>,
    <<"checkMinimumNpthSlotWidth", 70>>,
    <<"checkMinimumPthSlotWidth", 72>>,
    <<"checkAllowedNpthSlots", 74>>,
    <<"checkAllowedPthSlots", 76>>,
    <<"checkInvalidPadConnections", 78>>,
    <<"checkCourtyardClearances", 88>>,
    <<"checkBoardOutline", 91>>,
    <<"checkForUnplacedComponents", 92>>,
    <<"checkCircuitDefaultDevices", 93>>,
    <<"checkForMissingConnections", 95>>,
    <<"checkForStaleObjects", 97>>>>

\* The check functions in the order execute() calls them, with the progress
\* value each is given.
ExecuteOrder ==
  <<<<"checkMinimumCopperWidth", 14>>,
    <<"checkCopperCopperClearances", 24>>,
    <<"checkCopperBoardClearances", 34>>,
    <<"checkCopperHoleClearances", 44>>,
    <<"checkDrillDrillClearances", 49>>,
    <<"checkDrillBoardClearances", 54>>,
    <<"checkMinimumPthAnnularRing", 64>>,
    <<"checkMinimumNpthDrillDiameter", 66>>,
    <<"checkMinimumNpthSlotWidth", 68>>,
    <<"checkMinimumPthDrillDiameter", 70>>,
    <<"checkMinimumPthSlotWidth", 72>>,
    <<"checkAllowedNpthSlots", 74>>,
    <<"checkAllowedPthSlots", 76>>,
    <<"checkInvalidPadConnections", 78>>,
    <<"checkCourtyardClearances", 88>>,
    <<"checkBoardOutline", 91>>,
    <<"checkForUnplacedComponents", 92>>,
    <<"checkCircuitDefaultDevices", 93>>,
    <<"checkForMissingConnections", 95>>,
    <<"checkForStaleObjects", 97>>>>

CheckNames == {ExecuteOrder[i][1] : i \in DOMAIN ExecuteOrder}

IndexOf(c) == CHOOSE i \in DOMAIN ExecuteOrder : ExecuteOrder[i][1] = c

\* ProgressEnd with the values of two neighbouring checks exchanged.
ProgressEndSwapped(c) ==
  CASE c = "checkMinimumNpthDrillDiameter" -> 68
    [] c = "checkMinimumNpthSlotWidth" -> 66
    [] OTHER -> ExecuteOrder[IndexOf(c)][2]

ProgressEnd(c) == ExecuteOrder[IndexOf(c)][2]

\* The checks execute() calls whatever the value of quick.
QuickChecks ==
  {"checkMinimumCopperWidth", "checkCopperCopperClearances",
   "checkCopperBoardClearances", "checkCopperHoleClearances"}

\* FirstStatement without the test of quick around rebuildPlanes().
FirstStatementAlwaysRebuild(q) == "rebuildPlanes"

\* The statement execute(q) runs first after its prologue.
FirstStatement(q) == IF q THEN ExecuteOrder[1][1] ELSE "rebuildPlanes"

\* NextStatement without the test of quick around the slow checks.
NextStatementIgnoringQuick(c) ==
  LET i == IndexOf(c)
  IN  IF i = Len(ExecuteOrder) THEN "finish" ELSE ExecuteOrder[i + 1][1]

\* NextStatement with a test of the cancel request between two checks.
NextStatementCancellable(c) ==
  LET i == IndexOf(c)
  IN  IF i = Len(ExecuteOrder) \/ cancelRequested THEN "finish"
      ELSE IF quick /\ ExecuteOrder[i + 1][1] \notin QuickChecks THEN "finish"
      ELSE ExecuteOrder[i + 1][1]

\* The statement execute() runs after check c has returned.
NextStatement(c) ==
  LET i == IndexOf(c)
  IN  IF i = Len(ExecuteOrder) THEN "finish"
      ELSE IF quick /\ ExecuteOrder[i + 1][1] \notin QuickChecks THEN "finish"
      ELSE ExecuteOrder[i + 1][1]

\* ThrowTarget with a handler around every check that goes on with the next
\* check.
ThrowTargetCaught(c) ==
  LET i == IndexOf(c)
  IN  IF i = Len(ExecuteOrder) THEN "finish" ELSE ExecuteOrder[i + 1][1]

\* Where control goes when a check throws: execute() has no handler, the
\* exception leaves it.
ThrowTarget(c) == "threw"

\* CheckEnabled without the early return of checkCopperCopperClearances().
CheckEnabledCopperAlways(c) ==
  CASE c = "checkMinimumCopperWidth" -> mSettings.minCopperWidth # 0
    [] c = "checkCopperBoardClearances" -> mSettings.minCopperBoardClearance # 0
    [] c = "checkCopperHoleClearances" -> mSettings.minCopperNpthClearance # 0
    [] c = "checkDrillDrillClearances" -> mSettings.minDrillDrillClearance # 0
    [] c = "checkDrillBoardClearances" -> mSettings.minDrillBoardClearance # 0
    [] c = "checkMinimumPthAnnularRing" -> mSettings.minPthAnnularRing # 0
    [] c = "checkMinimumNpthDrillDiameter" -> mSettings.minNpthDrillDiameter # 0
    [] c = "checkMinimumNpthSlotWidth" -> mSettings.minNpthSlotWidth # 0
    [] c = "checkMinimumPthDrillDiameter" -> mSettings.minPthDrillDiameter # 0
    [] c = "checkMinimumPthSlotWidth" -> mSettings.minPthSlotWidth # 0
    [] c = "checkAllowedNpthSlots" -> mSettings.allowedNpthSlots # AllowedSlots.Any
    [] c = "checkAllowedPthSlots" -> mSettings.allowedPthSlots # AllowedSlots.Any
    [] OTHER -> TRUE

\* The early return at the top of a check is not taken.
CheckEnabled(c) ==
  CASE c = "checkMinimumCopperWidth" -> mSettings.minCopperWidth # 0
    [] c = "checkCopperCopperClearances" -> mSettings.minCopperCopperClearance # 0
    [] c = "checkCopperBoardClearances" -> mSettings.minCopperBoardClearance # 0
    [] c = "checkCopperHoleClearances" -> mSettings.minCopperNpthClearance # 0
    [] c = "checkDrillDrillClearances" -> mSettings.minDrillDrillClearance # 0
    [] c = "checkDrillBoardClearances" -> mSettings.minDrillBoardClearance # 0
    [] c = "checkMinimumPthAnnularRing" -> mSettings.minPthAnnularRing # 0
    [] c = "checkMinimumNpthDrillDiameter" -> mSettings.minNpthDrillDiameter # 0
    [] c = "checkMinimumNpthSlotWidth" -> mSettings.minNpthSlotWidth # 0
    [] c = "checkMinimumPthDrillDiameter" -> mSettings.minPthDrillDiameter # 0
    [] c = "checkMinimumPthSlotWidth" -> mSettings.minPthSlotWidth # 0
    [] c = "checkAllowedNpthSlots" -> mSettings.allowedNpthSlots # AllowedSlots.Any
    [] c = "checkAllowedPthSlots" -> mSettings.allowedPthSlots # AllowedSlots.Any
    [] OTHER -> TRUE

\* The text a check gives to emitStatus().
CheckStatus(c) ==
  CASE c = "checkMinimumCopperWidth" -> "Check copper widths..."
    [] c = "checkCopperCopperClearances" -> "Check copper clearances..."
    [] c = "checkCopperBoardClearances" -> "Check board clearances..."
    [] c = "checkCopperHoleClearances" -> "Check hole clearances..."
    [] c = "checkDrillDrillClearances" -> "Check drill clearances..."
    [] c = "checkDrillBoardClearances" -> "Check drill to board edge clearances..."
    [] c = "checkMinimumPthAnnularRing" -> "Check PTH annular rings..."
    [] c = "checkMinimumNpthDrillDiameter" -> "Check NPTH drill diameters..."
    [] c = "checkMinimumNpthSlotWidth" -> "Check NPTH slot widths..."
    [] c = "checkMinimumPthDrillDiameter" -> "Check PTH drill diameters..."
    [] c = "checkMinimumPthSlotWidth" -> "Check PTH slot widths..."
    [] c = "checkAllowedNpthSlots" -> "Check for disallowed NPTH slots..."
    [] c = "checkAllowedPthSlots" -> "Check for disallowed PTH slots..."
    [] c = "checkInvalidPadConnections" -> "Check pad connections..."
    [] c = "checkCourtyardClearances" -> "Check courtyard clearances..."
    [] c = "checkBoardOutline" -> "Check board outline..."
    [] c = "checkForUnplacedComponents" -> "Check for unplaced components..."
    [] c = "checkCircuitDefaultDevices" -> "Check configured default devices..."
    [] c = "checkForMissingConnections" -> "Check for missing connections..."
    [] c = "checkForStaleObjects" -> "Check for stale objects..."

\* The messages check c emits once it is past its early return.
CheckMessages(c) ==
  CASE c = "checkMinimumCopperWidth" -> MinimumCopperWidthMessages
    [] c = "checkCopperCopperClearances" -> CopperCopperClearanceMessages
    [] c = "checkCopperBoardClearances" -> CopperBoardClearanceMessages
    [] c = "checkCopperHoleClearances" -> CopperHoleClearanceMessages
    [] c = "checkDrillDrillClearances" -> DrillDrillClearanceMessages
    [] c = "checkDrillBoardClearances" -> DrillBoardClearanceMessages
    [] c = "checkMinimumPthAnnularRing" -> MinimumPthAnnularRingMessages
    [] c = "checkMinimumNpthDrillDiameter" -> MinimumNpthDrillDiameterMessages
    [] c = "checkMinimumNpthSlotWidth" -> MinimumNpthSlotWidthMessages
    [] c = "checkMinimumPthDrillDiameter" -> MinimumPthDrillDiameterMessages
    [] c = "checkMinimumPthSlotWidth" -> MinimumPthSlotWidthMessages
    [] c = "checkAllowedNpthSlots" -> AllowedNpthSlotsMessages
    [] c = "checkAllowedPthSlots" -> AllowedPthSlotsMessages
    [] c = "checkInvalidPadConnections" -> InvalidPadConnectionMessages
    [] c = "checkCourtyardClearances" -> CourtyardClearanceMessages
    [] c = "checkBoardOutline" -> BoardOutlineMessages
    [] c = "checkForUnplacedComponents" -> UnplacedComponentMessages
    [] c = "checkCircuitDefaultDevices" -> CircuitDefaultDeviceMessages
    [] c = "checkForMissingConnections" -> MissingConnectionMessages(board.unrouted)
    [] c = "checkForStaleObjects" -> StaleObjectMessages

\* The checks that call getCopperPaths().
UsesCopperCache(c) == c \in {"checkCopperHoleClearances", "checkMinimumPthAnnularRing"}

\* BoardCallsOf with a second rebuild of the planes in the courtyard check.
BoardCallsOfWithRebuild(c) ==
  IF c = "checkForMissingConnections" THEN <<"forceAirWiresRebuild">>
  ELSE IF c = "checkCourtyardClearances" THEN <<"rebuildAllPlanes">>
  ELSE <<>>

\* The non-const calls check c makes on mBoard.
BoardCallsOf(c) ==
  IF c = "checkForMissingConnections" THEN <<"forceAirWiresRebuild">> ELSE <<>>

\* The checks that run polygon operations, which can throw.
GeometryChecks ==
  {"checkCopperCopperClearances", "checkCopperBoardClearances",
   "checkCopperHoleClearances", "checkDrillDrillClearances",
   "checkDrillBoardClearances", "checkMinimumPthAnnularRing",
   "checkCourtyardClearances", "checkBoardOutline"}

(***************************************************************************)
(* emitProgress(), emitStatus(), emitMessage().                            *)
(***************************************************************************)
ProgressSignal(percent) == <<"progressPercent", percent>>

StatusSignal(status) == <<"progressStatus", status>>

MessageSignals(msgs) == [i \in DOMAIN msgs |-> <<"progressMessage", msgs[i].kind, msgs[i].objs>>]

\* emitStatus that emits the signal without keeping the text.
emitStatusNotKept(log, status) == log

\* mProgressStatus after emitStatus(status).
emitStatus(log, status) == Append(log, status)

\* mMessages after emitMessage() for every message of msgs.
emitMessage(list, msgs) == list \o msgs

\* A BoardDesignRuleCheck object has been constructed for the board and the
\* settings; nothing has been called on it.
Constructed ==
  /\ heap \in Heaps(board)
  /\ planeFragments = [u \in {p.uuid : p \in Range(board.planes)} |-> {}]
  /\ airWires = <<>>
  /\ mIgnorePlanes = FALSE
  /\ mProgressPercent = 0
  /\ mProgressStatus = <<>>
  /\ mMessages = <<>>
  /\ mCachedPaths = <<>>
  /\ quick = FALSE
  /\ pc = "idle"
  /\ signals = <<>>
  /\ boardCalls = <<>>
  /\ cancelRequested = FALSE
  /\ cancelledDuring = ""
  /\ exception = ""
  /\ stderr = <<>>
  /\ runs = 0
  /\ messages = <<>>
  /\ approvals = {}
  /\ approvedMsgCount = 0
  /\ printedMessages = <<>>
  /\ lastMessages = <<>>
  /\ value = <<>>
  /\ suffix = NoSuffix
  /\ LibraryIdle("")

Init ==
  /\ board \in Boards
  /\ mSettings \in SettingsChoices
  /\ Constructed

\* The checks run on the boards of the scenarios.
InitScenarios ==
  /\ board \in ScenarioBoards
  /\ mSettings \in ScenarioSettings
  /\ Constructed

\* execute(q) up to its first call: started, 2 %, the lists cleared
\* (mCachedPaths is not). It is called on a new object or after the previous
\* call has returned.
execute(q) ==
  /\ pc \in {"idle", "done"}
  /\ runs < MaxRuns
  /\ runs' = runs + 1
  /\ quick' = q
  /\ signals' = <<<<"started">>, ProgressSignal(2)>>
  /\ mProgressPercent' = 2
  /\ mIgnorePlanes' = q
  /\ mProgressStatus' = <<>>
  /\ mMessages' = <<>>
  /\ boardCalls' = <<>>
  /\ pc' = FirstStatement(q)
  /\ lastMessages' = IF runs = 0 THEN lastMessages ELSE mMessages
  /\ UNCHANGED <<messages, approvals, approvedMsgCount, printedMessages, value, suffix>>
  /\ UNCHANGED libVars
  /\ UNCHANGED <<board, heap, planeFragments, airWires, mSettings, mCachedPaths,
                 cancelRequested, cancelledDuring, exception, stderr>>

\* Board::rebuildAllPlanes(): every plane is filled inside its outline.
RebuiltFragments == [u \in DOMAIN planeFragments |->
                       convert((CHOOSE p \in Range(board.planes) : p.uuid = u).outline)]

rebuildPlanes ==
  /\ pc = "rebuildPlanes"
  /\ mProgressStatus' = emitStatus(mProgressStatus, "Rebuild planes...")
  /\ planeFragments' = RebuiltFragments
  /\ boardCalls' = Append(boardCalls, "rebuildAllPlanes")
  /\ mProgressPercent' = 12
  /\ signals' = signals \o <<StatusSignal("Rebuild planes..."), ProgressSignal(12)>>
  /\ pc' = ExecuteOrder[1][1]
  /\ UNCHANGED otherVars
  /\ UNCHANGED <<board, heap, runs, airWires, mSettings, mIgnorePlanes, mMessages,
                 mCachedPaths, quick, cancelRequested, cancelledDuring, exception, stderr>>

\* One call of check function c, from its first line to its return.
RunCheck(c) ==
  /\ pc = c
  /\ pc' = NextStatement(c)
  /\ IF CheckEnabled(c)
     THEN /\ mProgressStatus' = emitStatus(mProgressStatus, CheckStatus(c))
          /\ mMessages' = emitMessage(mMessages, CheckMessages(c))
          /\ mProgressPercent' = ProgressEnd(c)
          /\ signals' = signals \o <<StatusSignal(CheckStatus(c))>>
                          \o MessageSignals(CheckMessages(c))
                          \o <<ProgressSignal(ProgressEnd(c))>>
          /\ mCachedPaths' = IF UsesCopperCache(c) THEN CacheAfterAllLayers ELSE mCachedPaths
          /\ boardCalls' = boardCalls \o BoardCallsOf(c)
          /\ airWires' = IF "forceAirWiresRebuild" \in Range(BoardCallsOf(c))
                         THEN board.unrouted ELSE airWires
     ELSE UNCHANGED <<mProgressStatus, mMessages, mProgressPercent, signals,
                      mCachedPaths, boardCalls, airWires>>
  /\ UNCHANGED otherVars
  /\ UNCHANGED <<board, heap, runs, planeFragments, mSettings, mIgnorePlanes, quick,
                 cancelRequested, cancelledDuring, exception, stderr>>

checkMinimumCopperWidth == RunCheck("checkMinimumCopperWidth")

checkCopperCopperClearances == RunCheck("checkCopperCopperClearances")

checkCopperBoardClearances == RunCheck("checkCopperBoardClearances")

checkCopperHoleClearances == RunCheck("checkCopperHoleClearances")

checkDrillDrillClearances == RunCheck("checkDrillDrillClearances")

checkDrillBoardClearances == RunCheck("checkDrillBoardClearances")

checkMinimumPthAnnularRing == RunCheck("checkMinimumPthAnnularRing")

checkMinimumNpthDrillDiameter == RunCheck("checkMinimumNpthDrillDiameter")

checkMinimumNpthSlotWidth == RunCheck("checkMinimumNpthSlotWidth")

checkMinimumPthDrillDiameter == RunCheck("checkMinimumPthDrillDiameter")

checkMinimumPthSlotWidth == RunCheck("checkMinimumPthSlotWidth")

checkAllowedNpthSlots == RunCheck("checkAllowedNpthSlots")

checkAllowedPthSlots == RunCheck("checkAllowedPthSlots")

checkInvalidPadConnections == RunCheck("checkInvalidPadConnections")

checkCourtyardClearances == RunCheck("checkCourtyardClearances")

checkBoardOutline == RunCheck("checkBoardOutline")

checkForUnplacedComponents == RunCheck("checkForUnplacedComponents")

checkCircuitDefaultDevices == RunCheck("checkCircuitDefaultDevices")

checkForMissingConnections == RunCheck("checkForMissingConnections")

checkForStaleObjects == RunCheck("checkForStaleObjects")

\* A polygon operation of check c throws after the check has emitted n of its
\* messages.
checkThrows ==
  \E c \in GeometryChecks :
    /\ pc = c
    /\ CheckEnabled(c)
    /\ \E n \in 0..Len(CheckMessages(c)) :
         /\ mMessages' = emitMessage(mMessages, SubSeq(CheckMessages(c), 1, n))
         /\ signals' = signals \o <<StatusSignal(CheckStatus(c))>>
                         \o MessageSignals(SubSeq(CheckMessages(c), 1, n))
    /\ mProgressStatus' = emitStatus(mProgressStatus, CheckStatus(c))
    /\ mCachedPaths' = IF UsesCopperCache(c) THEN CacheAfterAllLayers ELSE mCachedPaths
    /\ pc' = ThrowTarget(c)
    /\ exception' = c
    /\ UNCHANGED otherVars
    /\ UNCHANGED <<board, heap, runs, planeFragments, airWires, mSettings, mIgnorePlanes,
                   mProgressPercent, quick, boardCalls, cancelRequested, cancelledDuring, stderr>>

\* CommandLineInterface::openProject(): the exception of drc.execute(false)
\* reaches the handler at the end of the function, which prints one line and
\* returns false.
openProjectCatch ==
  /\ pc = "threw"
  /\ ~quick
  /\ stderr' = Append(stderr, "ERROR: " \o exception)
  /\ pc' = "failed"
  /\ UNCHANGED otherVars
  /\ UNCHANGED <<board, heap, runs, planeFragments, airWires, mSettings, mIgnorePlanes,
                 mProgressPercent, mProgressStatus, mMessages, mCachedPaths, quick,
                 signals, boardCalls, cancelRequested, cancelledDuring, exception>>

\* tr("Finished with %1 message(s)!").arg(count).
FinishedStatus(count) == "Finished with " \o ToString(count) \o " message(s)!"

\* The end of execute(): the final status, 100 %, finished.
finish ==
  /\ pc = "finish"
  /\ mProgressStatus' = emitStatus(mProgressStatus, FinishedStatus(Len(mMessages)))
  /\ mProgressPercent' = 100
  /\ signals' = signals \o <<StatusSignal(FinishedStatus(Len(mMessages))),
                              ProgressSignal(100), <<"finished">>>>
  /\ pc' = "done"
  /\ UNCHANGED otherVars
  /\ UNCHANGED <<board, heap, runs, planeFragments, airWires, mSettings, mIgnorePlanes,
                 mMessages, mCachedPaths, quick, boardCalls, cancelRequested, cancelledDuring, exception, stderr>>

\* A cancel request of the user reaches the application before execute() is
\* called or while it runs (events are processed in emitStatus()).
requestCancel ==
  /\ pc \in CheckNames \cup {"idle", "rebuildPlanes"}
  /\ ~cancelRequested
  /\ cancelRequested' = TRUE
  /\ cancelledDuring' = pc
  /\ UNCHANGED otherVars
  /\ UNCHANGED <<board, heap, runs, planeFragments, airWires, mSettings, mIgnorePlanes,
                 mProgressPercent, mProgressStatus, mMessages, mCachedPaths, quick,
                 pc, signals, boardCalls, exception, stderr>>

\* The statements of execute() after its first lines, and what follows an
\* exception.
Steps ==
  \/ rebuildPlanes
  \/ checkMinimumCopperWidth
  \/ checkCopperCopperClearances
  \/ checkCopperBoardClearances
  \/ checkCopperHoleClearances
  \/ checkDrillDrillClearances
  \/ checkDrillBoardClearances
  \/ checkMinimumPthAnnularRing
  \/ checkMinimumNpthDrillDiameter
  \/ checkMinimumNpthSlotWidth
  \/ checkMinimumPthDrillDiameter
  \/ checkMinimumPthSlotWidth
  \/ checkAllowedNpthSlots
  \/ checkAllowedPthSlots
  \/ checkInvalidPadConnections
  \/ checkCourtyardClearances
  \/ checkBoardOutline
  \/ checkForUnplacedComponents
  \/ checkCircuitDefaultDevices
  \/ checkForMissingConnections
  \/ checkForStaleObjects
  \/ checkThrows
  \/ openProjectCatch
  \/ finish

Next ==
  \/ \E q \in BOOLEAN : execute(q)
  \/ Steps

Spec == Init /\ [][Next]_vars

\* The runs of an object on the boards of the scenarios.
SpecScenarios == InitScenarios /\ [][Next]_vars

\* Between two runs the board is edited so that it lists the same objects in
\* another order (mBoard is a reference to the board of the editor).
relist ==
  /\ pc \in {"idle", "done"}
  /\ board \in ScenarioBoards
  /\ \E p \in Perms(DOMAIN board.devices) :
       /\ Relisted(board, p) # board
       /\ board' = Relisted(board, p)
       /\ \E h \in Heaps(Relisted(board, p)) : heap' = h
  /\ UNCHANGED otherVars
  /\ UNCHANGED <<planeFragments, airWires, mSettings, mIgnorePlanes, mProgressPercent,
                 mProgressStatus, mMessages, mCachedPaths, quick, pc, signals,
                 boardCalls, cancelRequested, cancelledDuring, exception, stderr, runs>>

InitListings ==
  /\ board \in ScenarioBoards
  /\ mSettings = SettingsOn
  /\ Constructed

\* Two runs of all checks, the board relisted before the second.
SpecListings == InitListings /\ [][execute(FALSE) \/ Steps \/ relist]_vars

\* The caller keeps the messages of a finished run and constructs a new
\* BoardDesignRuleCheck, in this process or another, for the same board and
\* settings with every length multiplied by k.
rescale ==
  /\ pc = "done"
  /\ exception = ""
  /\ board \in ScalingBoards
  /\ \E k \in 2..MaxScale :
       /\ board' = Scaled(board, k)
       /\ mSettings' = ScaledSettings(mSettings, k)
  /\ lastMessages' = mMessages
  /\ planeFragments' = [u \in DOMAIN planeFragments |-> {}]
  /\ airWires' = <<>>
  /\ mIgnorePlanes' = FALSE
  /\ mProgressPercent' = 0
  /\ mProgressStatus' = <<>>
  /\ mMessages' = <<>>
  /\ mCachedPaths' = <<>>
  /\ quick' = FALSE
  /\ pc' = "idle"
  /\ signals' = <<>>
  /\ boardCalls' = <<>>
  /\ runs' = 0
  /\ \E h \in Heaps(board) : heap' = h
  /\ UNCHANGED <<cancelRequested, cancelledDuring, exception, stderr>>
  /\ UNCHANGED <<messages, approvals, approvedMsgCount, printedMessages, value, suffix>>
  /\ UNCHANGED libVars

InitScaling ==
  /\ board \in ScalingBoards
  /\ mSettings = SettingsOn
  /\ Constructed

\* Runs of all checks on a board and, with a new object, on the scaled board.
SpecScaling == InitScaling /\ [][execute(FALSE) \/ Steps \/ rescale]_vars

\* One run, with a cancel request at any time.
SpecCancel ==
  Init /\ [][(runs = 0 /\ \E q \in BOOLEAN : execute(q)) \/ Steps \/ requestCancel]_vars

(***************************************************************************)
(* CommandLineInterface::prepareRuleCheckMessages() and                    *)
(* Toolbox::sortNumeric().                                                 *)
(***************************************************************************)
\* RuleCheckMessage::Severity.
Severity == [Hint |-> 0, Warning |-> 1, Error |-> 2]

\* RuleCheckMessage::getSeverityTr().toUpper().
getSeverityTrUpper(severity) ==
  CASE severity = Severity.Hint -> "HINT"
    [] severity = Severity.Warning -> "WARNING"
    [] severity = Severity.Error -> "ERROR"

\* A message text is a word followed by a number in decimal digits:
\* <<"a", 10>> is the text "a10".
MessageTexts == {<<"a", 2>>, <<"A", 2>>, <<"a", 10>>, <<"B", 1>>}

\* The place of a letter in the alphabet, whatever its case.
LetterRank(word) ==
  CASE word \in {"a", "A"} -> 1
    [] word \in {"b", "B"} -> 2

\* QCollator::operator() with numeric mode on and Qt::CaseInsensitive: lhs
\* sorts before rhs.
collator(lhs, rhs) ==
  \/ LetterRank(lhs[1]) < LetterRank(rhs[1])
  \/ LetterRank(lhs[1]) = LetterRank(rhs[1]) /\ lhs[2] < rhs[2]

\* The messages a list is made of: severity, text and approval key.
RuleCheckMessages ==
  [severity : {Severity.Hint, Severity.Warning, Severity.Error},
   message : MessageTexts,
   approval : {"key1", "key2"}]

RECURSIVE SeqsUpTo(_, _)
\* The sequences over S of length at most n.
SeqsUpTo(S, n) ==
  IF n = 0 THEN {<<>>}
  ELSE LET shorter == SeqsUpTo(S, n - 1)
       IN  shorter \cup {Append(q, x) : q \in {r \in shorter : Len(r) = n - 1}, x \in S}

\* compare with the lower severity first.
compareSeverityAscending(lhs, rhs) ==
  IF lhs.severity # rhs.severity THEN lhs.severity < rhs.severity
  ELSE collator(lhs.message, rhs.message)

\* The comparison function prepareRuleCheckMessages() gives to sortNumeric():
\* lhs goes before rhs.
compare(lhs, rhs) ==
  IF lhs.severity # rhs.severity THEN lhs.severity > rhs.severity
  ELSE collator(lhs.message, rhs.message)

\* Toolbox::sortNumeric(): the orders std::sort() may leave the container in.
\* The order of elements none of which goes before the other is not fixed.
sortNumeric(container) ==
  {sorted \in {[i \in DOMAIN container |-> container[order[i]]] :
                 order \in Perms(DOMAIN container)} :
     \A i, j \in DOMAIN sorted : i < j => ~compare(sorted[j], sorted[i])}

\* QString("[%1] %2").arg(severity, message).
FormatMessage(msg) == <<"[", getSeverityTrUpper(msg.severity), "] ", msg.message>>

RECURSIVE ReportLoop(_, _, _)
\* The loop over the sorted messages: <<approvedMsgCount, printedMessages>>
\* after it, from the values before it.
ReportLoop(msgs, count, printed) ==
  IF msgs = <<>> THEN <<count, printed>>
  ELSE IF Head(msgs).approval \in approvals
       THEN ReportLoop(Tail(msgs), count + 1, printed)
       ELSE ReportLoop(Tail(msgs), count, Append(printed, FormatMessage(Head(msgs))))

\* One call of prepareRuleCheckMessages(messages, approvals, approvedMsgCount):
\* the list is a copy, the caller keeps its own.
prepareRuleCheckMessages ==
  /\ pc = "prepareRuleCheckMessages"
  /\ \E sorted \in sortNumeric(messages) :
       /\ approvedMsgCount' = ReportLoop(sorted, 0, <<>>)[1]
       /\ printedMessages' = ReportLoop(sorted, 0, <<>>)[2]
  /\ pc' = "returned"
  /\ UNCHANGED <<messages, approvals, lastMessages, value, suffix>>
  /\ UNCHANGED libVars
  /\ UNCHANGED drcVars

\* No BoardDesignRuleCheck object takes part.
NoRuleCheck ==
  /\ board = EmptyBoard
  /\ heap = [deviceOrder |-> <<>>, layerOrder |-> <<>>]
  /\ planeFragments = <<>>
  /\ airWires = <<>>
  /\ mSettings = SettingsOn
  /\ mIgnorePlanes = FALSE
  /\ mProgressPercent = 0
  /\ mProgressStatus = <<>>
  /\ mMessages = <<>>
  /\ mCachedPaths = <<>>
  /\ quick = FALSE
  /\ signals = <<>>
  /\ boardCalls = <<>>
  /\ cancelRequested = FALSE
  /\ cancelledDuring = ""
  /\ exception = ""
  /\ stderr = <<>>
  /\ runs = 0
  /\ lastMessages = <<>>

\* A caller is about to call prepareRuleCheckMessages() with some list of
\* messages and some set of approved keys; the counter holds any value.
InitApprovals ==
  /\ NoRuleCheck
  /\ pc = "prepareRuleCheckMessages"
  /\ messages \in SeqsUpTo(RuleCheckMessages, MaxMessages)
  /\ approvals \in SUBSET {"key1", "key2"}
  /\ approvedMsgCount \in {0, 7}
  /\ printedMessages = <<>>
  /\ value = <<>>
  /\ suffix = NoSuffix
  /\ LibraryIdle("")

SpecApprovals == InitApprovals /\ [][prepareRuleCheckMessages]_vars

(***************************************************************************)
(* ComponentSymbolVariantItemSuffix: a QString behind a constraint.  A     *)
(* string is a sequence of characters.                                     *)
(***************************************************************************)
\* The characters of the class [0-9a-zA-Z_] of the regular expression.
SuffixRegexClass == {"0", "5", "9", "a", "m", "z", "A", "M", "Z", "_"}

\* Characters a caller may pass.
Characters == SuffixRegexClass \cup {"-", " ", ".", "/", "+"}

\* The strings of length n of one repeated character c, and those with one
\* position given to another character.
StringsOfLength(n, c) ==
  {[i \in 1..n |-> c]}
  \cup {[i \in 1..n |-> IF i = k THEN d ELSE c] : k \in 1..n, d \in Characters}

SuffixInputs == UNION {StringsOfLength(n, c) : n \in 0..MaxLength, c \in {"a", "7"}}

\* ComponentSymbolVariantItemSuffixConstraint::operator(): a complete match
\* of \A[0-9a-zA-Z_]{0,16}\z.
ComponentSymbolVariantItemSuffixConstraint(val) ==
  /\ Len(val) \in 0..16
  /\ \A i \in 1..Len(val) : val[i] \in SuffixRegexClass

\* ComponentSymbolVariantItemSuffixVerifier::verify(): the value when the
\* predicate accepts it, a RuntimeError otherwise.
ComponentSymbolVariantItemSuffixVerifier(val) ==
  IF ComponentSymbolVariantItemSuffixConstraint(val)
  THEN [state |-> "constructed", value |-> val]
  ELSE [state |-> "RuntimeError", value |-> <<>>]

\* The constructor ComponentSymbolVariantItemSuffix(value).
ComponentSymbolVariantItemSuffix ==
  /\ pc = "ComponentSymbolVariantItemSuffix"
  /\ suffix' = ComponentSymbolVariantItemSuffixVerifier(value)
  /\ pc' = "returned"
  /\ UNCHANGED <<messages, approvals, approvedMsgCount, printedMessages, lastMessages, value>>
  /\ UNCHANGED libVars
  /\ UNCHANGED drcVars

\* A caller is about to construct a suffix from some string.
InitSuffix ==
  /\ NoRuleCheck
  /\ pc = "ComponentSymbolVariantItemSuffix"
  /\ messages = <<>>
  /\ approvals = {}
  /\ approvedMsgCount = 0
  /\ printedMessages = <<>>
  /\ value \in SuffixInputs
  /\ suffix = NoSuffix
  /\ LibraryIdle("")

SpecSuffix == InitSuffix /\ [][ComponentSymbolVariantItemSuffix]_vars

\* No rule check runs, and no function of the command line interface and no
\* suffix constructor has been called.
OnlyLibrary ==
  /\ NoRuleCheck
  /\ messages = <<>>
  /\ approvals = {}
  /\ approvedMsgCount = 0
  /\ printedMessages = <<>>
  /\ value = <<>>
  /\ suffix = NoSuffix

(***************************************************************************)
(* MsgOverlappingSymbolPins.  A pin is given by its UUID; UUIDs are        *)
(* numbers, ordered as Uuid::operator< orders them.  The approval key is   *)
(* the list of the children appended to it.                                *)
(***************************************************************************)
\* The lists of distinct pins.
PinLists ==
  {l \in UNION {[1..n -> 1..MaxPins] : n \in 0..MaxPins} :
     \A i, k \in DOMAIN l : l[i] = l[k] => i = k}

\* std::sort(sortedPins.begin(), sortedPins.end(), a->getUuid() < b->getUuid()).
SortByUuid(l) ==
  CHOOSE t \in [DOMAIN l -> Range(l)] :
    /\ Range(t) = Range(l)
    /\ \A i, k \in DOMAIN t : i < k => t[i] < t[k]

\* SExpression::ensureLineBreak(): a line break unless the last child is one.
ensureLineBreak(sexpr) ==
  IF sexpr # <<>> /\ sexpr[Len(sexpr)] = <<"linebreak">> THEN sexpr
  ELSE Append(sexpr, <<"linebreak">>)

RECURSIVE AppendPins(_, _)
\* The loop that appends a child for every pin of the list it walks.
AppendPins(sexpr, l) ==
  IF l = <<>> THEN sexpr
  ELSE AppendPins(Append(ensureLineBreak(sexpr), <<"pin", Head(l)>>), Tail(l))

\* The body of the constructor after the sort: the loop walks the list the
\* constructor was given.
AppendPinsOf(unsorted, sortedPins) == ensureLineBreak(AppendPins(<<>>, unsorted))

\* The constructor MsgOverlappingSymbolPins(pins).
MsgOverlappingSymbolPins ==
  /\ pc = "MsgOverlappingSymbolPins"
  /\ mApproval' = AppendPinsOf(pins, SortByUuid(pins))
  /\ pc' = "returned"
  /\ UNCHANGED <<pins, signalVars, textVars, padVars, fixedVars>>
  /\ UNCHANGED <<messages, approvals, approvedMsgCount, printedMessages, lastMessages,
                 value, suffix>>
  /\ UNCHANGED drcVars

\* A symbol check is about to report some list of overlapping pins.
InitPins ==
  /\ OnlyLibrary
  /\ pc = "MsgOverlappingSymbolPins"
  /\ pins \in PinLists
  /\ mApproval = <<>>
  /\ LibraryIdle("MsgOverlappingSymbolPins")

SpecPins == InitPins /\ [][MsgOverlappingSymbolPins]_vars

(***************************************************************************)
(* ComponentSignalInstance::setNetSignal().  netSignals maps every net     *)
(* signal to [added, registered]: it is added to the circuit, and this     *)
(* instance is in its list of registered component signals.                *)
(***************************************************************************)
NetSignals == {"ns1", "ns2"}

\* NetSignal::registerComponentSignal() throws.
RegisterThrows(nets, ns) == ~nets[ns].added \/ nets[ns].registered

\* NetSignal::unregisterComponentSignal() throws.
UnregisterThrows(nets, ns) == ~nets[ns].added \/ ~nets[ns].registered

\* NetSignal::registerComponentSignal() that returns.
registerComponentSignal(nets, ns) == [nets EXCEPT ![ns].registered = TRUE]

\* NetSignal::unregisterComponentSignal() that returns.
unregisterComponentSignal(nets, ns) == [nets EXCEPT ![ns].registered = FALSE]

RECURSIVE RunGuards(_, _)
\* ~ScopeGuardList() of a list that was not dismissed: the functions added
\* to it are called, the last one first; what one of them throws is dropped.
RunGuards(nets, sgl) ==
  IF sgl = <<>> THEN nets
  ELSE LET g == sgl[Len(sgl)]
           rest == SubSeq(sgl, 1, Len(sgl) - 1)
       IN  IF g[1] = "register"
           THEN RunGuards(IF RegisterThrows(nets, g[2]) THEN nets
                          ELSE registerComponentSignal(nets, g[2]), rest)
           ELSE RunGuards(IF UnregisterThrows(nets, g[2]) THEN nets
                          ELSE unregisterComponentSignal(nets, g[2]), rest)

\* ComponentSignalInstance::arePinsOrPadsUsed().
arePinsOrPadsUsed ==
  \/ \E i \in DOMAIN mRegisteredSymbolPins : mRegisteredSymbolPins[i]
  \/ \E i \in DOMAIN mRegisteredFootprintPads : mRegisteredFootprintPads[i]

\* UnregisterGuard that adds nothing to the list.
UnregisterGuardMissing(old) == <<>>

\* sgl.add() after the old net signal is unregistered: the function that
\* registers the instance again.
UnregisterGuard(old) == <<<<"register", old>>>>

\* What a call leaves: the net signals, mNetSignal, the signals emitted and
\* the exception.
SetNetSignalOutcome(nets, net, emitted, exc) ==
  [nets |-> nets, mNetSignal |-> net, emitted |-> emitted, thrown |-> exc]

\* The body of setNetSignal() after its tests.
SetNetSignalBody ==
  LET old == mNetSignal
      failed == SetNetSignalOutcome(netSignals, old, <<>>, "Exception")
  IN  IF old # NoNet /\ UnregisterThrows(netSignals, old) THEN failed
      ELSE LET nets1 == IF old # NoNet THEN unregisterComponentSignal(netSignals, old)
                        ELSE netSignals
               sgl1 == IF old # NoNet THEN UnregisterGuard(old) ELSE <<>>
           IN  IF netsignal # NoNet /\ RegisterThrows(nets1, netsignal)
               THEN SetNetSignalOutcome(RunGuards(nets1, sgl1), old, <<>>, "Exception")
               ELSE LET nets2 == IF netsignal # NoNet
                                 THEN registerComponentSignal(nets1, netsignal)
                                 ELSE nets1
                    IN  SetNetSignalOutcome(nets2, netsignal, <<<<old, netsignal>>>>, "")

\* One call of setNetSignal(netsignal).
setNetSignal ==
  /\ pc = "setNetSignal"
  /\ pc' = "returned"
  /\ LET unchanged == SetNetSignalOutcome(netSignals, mNetSignal, <<>>, "")
         out == IF netsignal = mNetSignal THEN unchanged
                ELSE IF ~mIsAddedToCircuit
                     THEN [unchanged EXCEPT !.thrown = "LogicError"]
                ELSE IF arePinsOrPadsUsed
                     THEN [unchanged EXCEPT !.thrown = "LogicError"]
                ELSE SetNetSignalBody
     IN  /\ netSignals' = out.nets
         /\ mNetSignal' = out.mNetSignal
         /\ netSignalChanged' = netSignalChanged \o out.emitted
         /\ thrown' = out.thrown
  /\ UNCHANGED <<mIsAddedToCircuit, mRegisteredSymbolPins, mRegisteredFootprintPads,
                 netsignal, called>>
  /\ UNCHANGED <<pins, mApproval, textVars, padVars, fixedVars>>
  /\ UNCHANGED <<messages, approvals, approvedMsgCount, printedMessages, lastMessages,
                 value, suffix>>
  /\ UNCHANGED drcVars

\* The lists of isUsed() values of up to MaxRegistered pins or pads.
UsedFlags == UNION {[1..n -> BOOLEAN] : n \in 0..MaxRegistered}

\* A component signal instance as the circuit can hold it: it is registered
\* at its net signal when it is added to the circuit, that net signal is
\* then added to the circuit too, and pins and pads are registered only at
\* an instance that is added.
InitSignal ==
  /\ OnlyLibrary
  /\ LibraryIdle("ComponentSignalInstance")
  /\ pc = "setNetSignal"
  /\ mIsAddedToCircuit \in BOOLEAN
  /\ mNetSignal \in NetSignals \cup {NoNet}
  /\ mRegisteredSymbolPins \in UsedFlags
  /\ mRegisteredFootprintPads \in UsedFlags
  /\ ~mIsAddedToCircuit => mRegisteredSymbolPins = <<>> /\ mRegisteredFootprintPads = <<>>
  /\ netSignals \in [NetSignals -> [added : BOOLEAN, registered : BOOLEAN]]
  /\ \A ns \in NetSignals :
       /\ netSignals[ns].registered = (mIsAddedToCircuit /\ mNetSignal = ns)
       /\ netSignals[ns].registered => netSignals[ns].added
  /\ netsignal \in NetSignals \cup {NoNet}
  /\ netSignalChanged = <<>>
  /\ thrown = ""
  /\ called = [mNetSignal |-> mNetSignal, netSignals |-> netSignals]

SpecSignal == InitSignal /\ [][setNetSignal]_vars

(***************************************************************************)
(* CmdTextEdit.  A text is a record of layer, text, position, rotation,    *)
(* height and alignment; mOld and mNew hold the twelve members mOldLayer,  *)
(* mNewLayer, ... of the command.  Angles are degrees, positions <<x, y>>. *)
(***************************************************************************)
TextLayers == {"top_names", "top_values"}
TextStrings == {"{{NAME}}", "R1"}
TextPoints == {<<0, 0>>, <<1, 3>>}
TextDeltas == {<<2, -1>>}
TextCenters == {<<0, 0>>, <<1, 1>>}
TextAngles == {0, 90, 180}
TextHeights == {1, 2}
TextAligns == {<<"left", "bottom">>, <<"center", "top">>}
GridIntervals == {2}

\* The texts an edit command is constructed for.
Texts ==
  {[layer |-> "top_names", text |-> "{{NAME}}", position |-> <<0, 0>>, rotation |-> 0,
    height |-> 1, align |-> <<"left", "bottom">>],
   [layer |-> "top_values", text |-> "R1", position |-> <<1, 3>>, rotation |-> 90,
    height |-> 2, align |-> <<"center", "top">>]}

\* Angle: the value is kept within ]-360, 360[ with the sign of the sum.
AngleOf(deg) == IF deg >= 0 THEN deg % 360 ELSE 0 - ((0 - deg) % 360)

\* Point::rotate() by a multiple of 90 degrees around center.
PointRotated(pos, angle, center) ==
  LET dx == pos[1] - center[1]
      dy == pos[2] - center[2]
      a == (angle + 360) % 360
  IN  IF a = 0 THEN pos
      ELSE IF a = 90 THEN <<center[1] - dy, center[2] + dx>>
      ELSE IF a = 180 THEN <<center[1] - dx, center[2] - dy>>
      ELSE <<center[1] + dy, center[2] - dx>>

\* Point::mirror() around center.
PointMirrored(pos, orientation, center) ==
  IF orientation = "Horizontal" THEN <<2 * center[1] - pos[1], pos[2]>>
  ELSE <<pos[1], 2 * center[2] - pos[2]>>

\* Point::mappedToGrid().
mappedToGrid(pos, gridInterval) ==
  <<((2 * pos[1] + gridInterval) \div (2 * gridInterval)) * gridInterval,
    ((2 * pos[2] + gridInterval) \div (2 * gridInterval)) * gridInterval>>

\* Alignment::mirrorV().
mirrorV(align) ==
  <<align[1], IF align[2] = "top" THEN "bottom"
              ELSE IF align[2] = "bottom" THEN "top" ELSE align[2]>>

\* A setter may be called: Q_ASSERT(!wasEverExecuted()).
SetterCallable ==
  /\ pc = "CmdTextEdit"
  /\ cmd = "new"
  /\ setterCalls < MaxSetters

\* What every setter leaves alone.
SetterFrame ==
  /\ setterCalls' = setterCalls + 1
  /\ UNCHANGED <<mOld, cmd, atConstruction, afterExecute, pc>>
  /\ UNCHANGED <<pins, mApproval, signalVars, padVars, fixedVars>>
  /\ UNCHANGED <<messages, approvals, approvedMsgCount, printedMessages, lastMessages,
                 value, suffix>>
  /\ UNCHANGED drcVars

setLayer ==
  /\ SetterCallable
  /\ \E layer \in TextLayers, immediate \in BOOLEAN :
       /\ mNew' = [mNew EXCEPT !.layer = layer]
       /\ mText' = IF immediate THEN [mText EXCEPT !.layer = layer] ELSE mText
  /\ SetterFrame

setText ==
  /\ SetterCallable
  /\ \E text \in TextStrings, immediate \in BOOLEAN :
       /\ mNew' = [mNew EXCEPT !.text = text]
       /\ mText' = IF immediate THEN [mText EXCEPT !.text = text] ELSE mText
  /\ SetterFrame

setHeight ==
  /\ SetterCallable
  /\ \E height \in TextHeights, immediate \in BOOLEAN :
       /\ mNew' = [mNew EXCEPT !.height = height]
       /\ mText' = IF immediate THEN [mText EXCEPT !.height = height] ELSE mText
  /\ SetterFrame

setAlignment ==
  /\ SetterCallable
  /\ \E align \in TextAligns, immediate \in BOOLEAN :
       /\ mNew' = [mNew EXCEPT !.align = align]
       /\ mText' = IF immediate THEN [mText EXCEPT !.align = align] ELSE mText
  /\ SetterFrame

\* The assignment of setPosition(), which snapToGrid() calls too.
PositionSet(pos, immediate) ==
  /\ mNew' = [mNew EXCEPT !.position = pos]
  /\ mText' = IF immediate THEN [mText EXCEPT !.position = pos] ELSE mText

setPosition ==
  /\ SetterCallable
  /\ \E pos \in TextPoints, immediate \in BOOLEAN : PositionSet(pos, immediate)
  /\ SetterFrame

translate ==
  /\ SetterCallable
  /\ \E deltaPos \in TextDeltas, immediate \in BOOLEAN :
       PositionSet(<<mNew.position[1] + deltaPos[1], mNew.position[2] + deltaPos[2]>>,
                   immediate)
  /\ SetterFrame

snapToGrid ==
  /\ SetterCallable
  /\ \E gridInterval \in GridIntervals, immediate \in BOOLEAN :
       PositionSet(mappedToGrid(mNew.position, gridInterval), immediate)
  /\ SetterFrame

setRotation ==
  /\ SetterCallable
  /\ \E angle \in TextAngles, immediate \in BOOLEAN :
       /\ mNew' = [mNew EXCEPT !.rotation = angle]
       /\ mText' = IF immediate THEN [mText EXCEPT !.rotation = angle] ELSE mText
  /\ SetterFrame

rotate ==
  /\ SetterCallable
  /\ \E angle \in TextAngles, center \in TextCenters, immediate \in BOOLEAN :
       LET pos == PointRotated(mNew.position, angle, center)
           rot == AngleOf(mNew.rotation + angle)
       IN  /\ mNew' = [mNew EXCEPT !.position = pos, !.rotation = rot]
           /\ mText' = IF immediate
                       THEN [mText EXCEPT !.position = pos, !.rotation = rot]
                       ELSE mText
  /\ SetterFrame

mirror ==
  /\ SetterCallable
  /\ \E orientation \in {"Horizontal", "Vertical"}, center \in TextCenters,
        immediate \in BOOLEAN :
       LET pos == PointMirrored(mNew.position, orientation, center)
           rot == IF orientation = "Horizontal" THEN AngleOf(180 - mNew.rotation)
                  ELSE AngleOf(0 - mNew.rotation)
           align == mirrorV(mNew.align)
       IN  /\ mNew' = [mNew EXCEPT !.position = pos, !.rotation = rot, !.align = align]
           /\ mText' = IF immediate
                       THEN [mText EXCEPT !.position = pos, !.rotation = rot,
                                          !.align = align]
                       ELSE mText
  /\ SetterFrame

\* performUndo() that leaves the alignment of the text as it is.
UndoneTextKeepsAlign == [mOld EXCEPT !.align = mText.align]

\* The text after performUndo(): the six setters are called with the old
\* values.
UndoneText == mOld

\* The text after performRedo(): the six setters are called with the new
\* values.
RedoneText == mNew

\* What the operations of the undo command leave alone.
CommandFrame ==
  /\ UNCHANGED <<mOld, mNew, atConstruction, setterCalls, pc>>
  /\ UNCHANGED <<pins, mApproval, signalVars, padVars, fixedVars>>
  /\ UNCHANGED <<messages, approvals, approvedMsgCount, printedMessages, lastMessages,
                 value, suffix>>
  /\ UNCHANGED drcVars

performExecute ==
  /\ pc = "CmdTextEdit"
  /\ cmd = "new"
  /\ cmd' = "executed"
  /\ mText' = RedoneText
  /\ afterExecute' = RedoneText
  /\ CommandFrame

performUndo ==
  /\ pc = "CmdTextEdit"
  /\ cmd \in {"executed", "redone"}
  /\ cmd' = "undone"
  /\ mText' = UndoneText
  /\ UNCHANGED afterExecute
  /\ CommandFrame

performRedo ==
  /\ pc = "CmdTextEdit"
  /\ cmd = "undone"
  /\ cmd' = "redone"
  /\ mText' = RedoneText
  /\ UNCHANGED afterExecute
  /\ CommandFrame

\* ~CmdTextEdit() of a command that was never executed.
destroyCmdTextEdit ==
  /\ pc = "CmdTextEdit"
  /\ cmd = "new"
  /\ cmd' = "destroyed"
  /\ mText' = UndoneText
  /\ UNCHANGED afterExecute
  /\ CommandFrame

\* CmdTextEdit(text): the old and the new values are those of the text.
InitText ==
  /\ OnlyLibrary
  /\ LibraryIdle("CmdTextEdit")
  /\ pc = "CmdTextEdit"
  /\ mText \in Texts
  /\ mOld = mText
  /\ mNew = mText
  /\ cmd = "new"
  /\ atConstruction = mText
  /\ afterExecute = <<>>
  /\ setterCalls = 0

Setters ==
  \/ setLayer
  \/ setText
  \/ setHeight
  \/ setAlignment
  \/ setPosition
  \/ translate
  \/ snapToGrid
  \/ setRotation
  \/ rotate
  \/ mirror

SpecText ==
  InitText /\ [][Setters \/ performExecute \/ performUndo \/ performRedo
                 \/ destroyCmdTextEdit]_vars

(***************************************************************************)
(* PackageEditorState_AddPads for through-hole pads.  Lengths are in units *)
(* of 0.1 mm.  A pad is a record of width, height, drill (the diameter of  *)
(* its first hole), position and rotation (in quarter turns).              *)
(***************************************************************************)
NoPad == <<>>

\* The values typed into a length edit of the toolbar.
PadLengths == {5, 8, 13, 25, 30}

\* The grid positions of the cursor.
PadPositions == {<<0, 0>>, <<1, 0>>}

\* The calls of the undo stack that can throw in one handler; beginCmdGroup()
\* throws when a command group is open already.
Failures == {"none", "appendToCmdGroup", "commitCmdGroup", "abortCmdGroup"}

\* mLastPad as the constructor leaves it: 2.5 mm x 1.3 mm, one hole of
\* 0.8 mm.
ConstructedPad ==
  [width |-> 25, height |-> 13, drill |-> 8, position |-> <<0, 0>>, rotation |-> 0]

\* The edits and the two pads of the tool, as the callbacks of one edit
\* pass them on.
ToolValues(w, h, d, last, cur) ==
  [edtWidth |-> w, edtHeight |-> h, edtDrillDiameter |-> d, mLastPad |-> last,
   mCurrentPad |-> cur]

\* CmdFootprintPadEdit setter with immediate = true, when there is an edit
\* command.
EditImmediate(t, field, v) ==
  IF mEditCmd = "set" THEN [t EXCEPT !.mCurrentPad[field] = v] ELSE t

widthEditValueChanged(t, v) ==
  EditImmediate([t EXCEPT !.mLastPad.width = v], "width", v)

heightEditValueChanged(t, v) ==
  EditImmediate([t EXCEPT !.mLastPad.height = v], "height", v)

drillDiameterEditValueChanged(t, v) ==
  EditImmediate([t EXCEPT !.mLastPad.drill = v], "drill",
                v)

RECURSIVE WidthSetValue(_, _)
RECURSIVE HeightSetValue(_, _)
RECURSIVE DrillSetValue(_, _)

\* WidthLambda that leaves the drill diameter alone.
WidthLambdaMissing(t, v) == t

\* The function connected to valueChanged of the width edit in entry().
WidthLambda(t, v) == IF v < t.edtDrillDiameter THEN DrillSetValue(t, v) ELSE t

\* The function connected to valueChanged of the height edit in entry().
HeightLambda(t, v) == IF v < t.edtDrillDiameter THEN DrillSetValue(t, v) ELSE t

\* The function connected to valueChanged of the drill diameter edit in
\* entry().
DrillLambda(t, v) ==
  LET t1 == IF v > t.edtWidth THEN WidthSetValue(t, v) ELSE t
  IN  IF v > t1.edtHeight THEN HeightSetValue(t1, v) ELSE t1

\* PositiveLengthEdit::setValue() of the width edit: valueChanged is emitted
\* when the value differs, and the slots run in the order of their connection.
WidthSetValue(t, v) ==
  IF v = t.edtWidth THEN t
  ELSE WidthLambda(widthEditValueChanged([t EXCEPT !.edtWidth = v], v), v)

HeightSetValue(t, v) ==
  IF v = t.edtHeight THEN t
  ELSE HeightLambda(heightEditValueChanged([t EXCEPT !.edtHeight = v], v), v)

DrillSetValue(t, v) ==
  IF v = t.edtDrillDiameter THEN t
  ELSE DrillLambda(drillDiameterEditValueChanged([t EXCEPT !.edtDrillDiameter = v], v),
                   v)

\* The values of the tool now.
CurrentValues == ToolValues(edtWidth, edtHeight, edtDrillDiameter, mLastPad, mCurrentPad)

\* What no handler of the tool touches.
ToolFrame ==
  /\ UNCHANGED pc
  /\ UNCHANGED <<pins, mApproval, signalVars, textVars, fixedVars>>
  /\ UNCHANGED <<messages, approvals, approvedMsgCount, printedMessages, lastMessages,
                 value, suffix>>
  /\ UNCHANGED drcVars

\* The values of the tool after an edit and its callbacks.
Edited(t, edit) ==
  /\ edtWidth' = t.edtWidth
  /\ edtHeight' = t.edtHeight
  /\ edtDrillDiameter' = t.edtDrillDiameter
  /\ mLastPad' = t.mLastPad
  /\ mCurrentPad' = t.mCurrentPad
  /\ handled' = <<edit, TRUE>>
  /\ UNCHANGED <<toolState, mEditCmd, mCurrentGraphicsItem, cmdGroupActive,
                 footprintPads>>
  /\ ToolFrame

\* The user changes the value of the width edit.
editWidth ==
  /\ pc = "AddPads"
  /\ edtWidth # 0
  /\ \E v \in PadLengths \ {edtWidth} : Edited(WidthSetValue(CurrentValues, v), "width")

\* The user changes the value of the height edit.
editHeight ==
  /\ pc = "AddPads"
  /\ edtHeight # 0
  /\ \E v \in PadLengths \ {edtHeight} : Edited(HeightSetValue(CurrentValues, v), "height")

\* The user changes the value of the drill diameter edit.
editDrillDiameter ==
  /\ pc = "AddPads"
  /\ edtDrillDiameter # 0
  /\ \E v \in PadLengths \ {edtDrillDiameter} :
       Edited(DrillSetValue(CurrentValues, v), "drill")

\* The members and the undo stack as a private method of the tool leaves
\* them, with its return value.
ToolOutcome(last, cur, editCmd, item, group, pads, ok) ==
  [mLastPad |-> last, mCurrentPad |-> cur, mEditCmd |-> editCmd,
   mCurrentGraphicsItem |-> item, cmdGroupActive |-> group, footprintPads |-> pads,
   ok |-> ok]

\* The members and the undo stack now.
CurrentTool ==
  ToolOutcome(mLastPad, mCurrentPad, mEditCmd, mCurrentGraphicsItem, cmdGroupActive,
              footprintPads, TRUE)

\* The catch block of startAddPad().
StartCaught(t) ==
  [t EXCEPT !.mCurrentGraphicsItem = "null", !.mCurrentPad = NoPad,
            !.mEditCmd = "null", !.ok = FALSE]

\* startAddPad(pos).
startAddPad(t, pos, fail) ==
  IF t.cmdGroupActive THEN StartCaught(t)
  ELSE LET last == [t.mLastPad EXCEPT !.position = pos]
           t1 == [t EXCEPT !.cmdGroupActive = TRUE, !.mLastPad = last,
                           !.mCurrentPad = last]
       IN  IF fail = "appendToCmdGroup" THEN StartCaught(t1)
           ELSE [t1 EXCEPT !.footprintPads.pending = TRUE, !.mEditCmd = "set",
                           !.mCurrentGraphicsItem = "set"]

\* finishAddPad(pos), called with a pad in progress.
finishAddPad(t, pos, fail) ==
  LET cur == [t.mCurrentPad EXCEPT !.position = pos]
      t1 == [t EXCEPT !.mCurrentGraphicsItem = "null", !.mLastPad = cur,
                      !.mCurrentPad = NoPad, !.mEditCmd = "null"]
  IN  IF fail \in {"appendToCmdGroup", "commitCmdGroup"} THEN [t1 EXCEPT !.ok = FALSE]
      ELSE [t1 EXCEPT !.cmdGroupActive = FALSE,
                      !.footprintPads = [placed |-> @.placed + 1, pending |-> FALSE]]

\* abortAddPad(), called with a pad in progress.
abortAddPad(t, fail) ==
  LET t1 == [t EXCEPT !.mCurrentGraphicsItem = "null", !.mLastPad = t.mCurrentPad,
                      !.mCurrentPad = NoPad, !.mEditCmd = "null"]
  IN  IF fail = "abortCmdGroup" THEN [t1 EXCEPT !.ok = FALSE]
      ELSE [t1 EXCEPT !.cmdGroupActive = FALSE, !.footprintPads.pending = FALSE]

\* The members and the undo stack after a handler.
Handled(t, handler, ok) ==
  /\ mLastPad' = t.mLastPad
  /\ mCurrentPad' = t.mCurrentPad
  /\ mEditCmd' = t.mEditCmd
  /\ mCurrentGraphicsItem' = t.mCurrentGraphicsItem
  /\ cmdGroupActive' = t.cmdGroupActive
  /\ footprintPads' = t.footprintPads
  /\ handled' = <<handler, ok>>
  /\ ToolFrame

\* entry(): the toolbar is filled from mLastPad and a pad is started.
entry ==
  /\ pc = "AddPads"
  /\ toolState # "entered"
  /\ \E pos \in PadPositions, fail \in {"none", "appendToCmdGroup"} :
       LET t == startAddPad(CurrentTool, pos, fail)
       IN  /\ edtWidth' = mLastPad.width
           /\ edtHeight' = mLastPad.height
           /\ edtDrillDiameter' = mLastPad.drill
           /\ toolState' = IF t.ok THEN "entered" ELSE toolState
           /\ Handled(t, "entry", t.ok)

\* exit().
exit ==
  /\ pc = "AddPads"
  /\ toolState = "entered"
  /\ \E fail \in {"none", "abortCmdGroup"} :
       LET t == IF mCurrentPad # NoPad THEN abortAddPad(CurrentTool, fail)
                ELSE CurrentTool
       IN  /\ edtWidth' = IF t.ok THEN 0 ELSE edtWidth
           /\ edtHeight' = IF t.ok THEN 0 ELSE edtHeight
           /\ edtDrillDiameter' = IF t.ok THEN 0 ELSE edtDrillDiameter
           /\ toolState' = IF t.ok THEN "exited" ELSE toolState
           /\ Handled(t, "exit", t.ok)

processGraphicsSceneMouseMoved ==
  /\ pc = "AddPads"
  /\ toolState = "entered"
  /\ \E currentPos \in PadPositions :
       LET t == IF mCurrentPad # NoPad
                THEN [CurrentTool EXCEPT !.mCurrentPad.position = currentPos]
                ELSE CurrentTool
       IN  Handled(t, "mouseMoved", mCurrentPad # NoPad)
  /\ UNCHANGED <<toolState, edtWidth, edtHeight, edtDrillDiameter>>

processGraphicsSceneLeftMouseButtonPressed ==
  /\ pc = "AddPads"
  /\ toolState = "entered"
  /\ footprintPads.placed < MaxPads
  /\ \E currentPos \in PadPositions,
        failFinish \in {"none", "appendToCmdGroup", "commitCmdGroup"},
        failStart \in {"none", "appendToCmdGroup"} :
       LET t1 == IF mCurrentPad # NoPad
                 THEN finishAddPad(CurrentTool, currentPos, failFinish)
                 ELSE CurrentTool
           t2 == startAddPad([t1 EXCEPT !.ok = TRUE], currentPos, failStart)
       IN  Handled(t2, "leftMouseButtonPressed", t2.ok)
  /\ UNCHANGED <<toolState, edtWidth, edtHeight, edtDrillDiameter>>

processRotate ==
  /\ pc = "AddPads"
  /\ toolState = "entered"
  /\ LET t == IF mCurrentPad # NoPad
              THEN [CurrentTool EXCEPT !.mCurrentPad.rotation = (@ + 1) % 4]
              ELSE CurrentTool
     IN  Handled(t, "rotate", mCurrentPad # NoPad)
  /\ UNCHANGED <<toolState, edtWidth, edtHeight, edtDrillDiameter>>

\* PackageEditorState_AddPads(context, PadType::THT).
InitAddPads ==
  /\ OnlyLibrary
  /\ LibraryIdle("PackageEditorState_AddPads")
  /\ pc = "AddPads"
  /\ toolState = "constructed"
  /\ mLastPad = ConstructedPad
  /\ mCurrentPad = NoPad
  /\ mEditCmd = "null"
  /\ mCurrentGraphicsItem = "null"
  /\ edtWidth = 0
  /\ edtHeight = 0
  /\ edtDrillDiameter = 0
  /\ cmdGroupActive = FALSE
  /\ footprintPads = [placed |-> 0, pending |-> FALSE]
  /\ handled = <<"constructor", TRUE>>

SpecAddPads ==
  InitAddPads /\ [][entry \/ exit \/ processGraphicsSceneMouseMoved
                    \/ processGraphicsSceneLeftMouseButtonPressed \/ processRotate
                    \/ editWidth \/ editHeight \/ editDrillDiameter]_vars

(***************************************************************************)
(* Toolbox::decimalFixedPointToString() and decimalFixedPointFromString()  *)
(* for a signed type T of TBits bits.  A string is a sequence of           *)
(* characters; UnsignedT is the integers modulo 2^TBits.                   *)
(***************************************************************************)
TModulus == 2 ^ TBits

\* std::numeric_limits<T>::min(), max() and std::numeric_limits<UnsignedT>::max().
TMin == 0 - 2 ^ (TBits - 1)

TMax == 2 ^ (TBits - 1) - 1

max_u == TModulus - 1

\* The maximum of the type of the exponent.  The code keeps the exponent in a
\* quint32; here it has 31 bits, the widest unsigned type whose values are
\* numbers of the model checker.
maxExp == 2147483647

\* static_cast<UnsignedT>(v) and static_cast<T>(u).
ToUnsigned(v) == v % TModulus

ToSigned(u) == IF u % TModulus > TMax THEN (u % TModulus) - TModulus ELSE u % TModulus

DigitChars == <<"0", "1", "2", "3", "4", "5", "6", "7", "8", "9">>

isDigit(c) == \E d \in 1..10 : DigitChars[d] = c

digitValue(c) == (CHOOSE d \in 1..10 : DigitChars[d] = c) - 1

RECURSIVE number(_)
\* QString::number() of an unsigned value.
number(n) ==
  IF n < 10 THEN <<DigitChars[n + 1]>>
  ELSE Append(number(n \div 10), DigitChars[(n % 10) + 1])

\* A string of n zeros.
Zeros(n) == [i \in 1..n |-> "0"]

RECURSIVE ChopZeros(_)
\* while (str.endsWith('0') && !str.endsWith(".0")) str.chop(1).
ChopZeros(s) ==
  IF /\ Len(s) >= 1
     /\ s[Len(s)] = "0"
     /\ ~(Len(s) >= 2 /\ s[Len(s) - 1] = ".")
  THEN ChopZeros(SubSeq(s, 1, Len(s) - 1))
  ELSE s

\* Toolbox::decimalFixedPointToString(v, pos).
ToFixedPointString(v, pos) ==
  IF v = 0 THEN <<"0", ".", "0">>
  ELSE LET valueAbs == IF v < 0 THEN (TModulus - ToUnsigned(v)) % TModulus
                       ELSE ToUnsigned(v)
           digits == number(valueAbs)
           pointed == IF Len(digits) > pos
                      THEN SubSeq(digits, 1, Len(digits) - pos) \o <<".">>
                           \o SubSeq(digits, Len(digits) - pos + 1, Len(digits))
                      ELSE <<"0", ".">> \o Zeros(pos - Len(digits)) \o digits
           chopped == ChopZeros(pointed)
       IN  IF v < 0 THEN <<"-">> \o chopped ELSE chopped

\* The local variables of decimalFixedPointFromString() before the loop.
ParseStart(pos) ==
  [state |-> "START", valueAbs |-> 0, sign |-> FALSE, expOffset |-> pos, exp |-> 0,
   expSign |-> FALSE]

\* One more digit of the number, in INT_PART (fraction = 0) and FRAC_PART
\* (fraction = 1).
NumberDigit(p, digit, fraction) ==
  IF p.valueAbs > max_u \div 10 THEN [p EXCEPT !.state = "INVALID"]
  ELSE IF p.valueAbs * 10 > max_u - digit
       THEN [p EXCEPT !.state = "INVALID", !.valueAbs = p.valueAbs * 10]
  ELSE [p EXCEPT !.valueAbs = p.valueAbs * 10 + digit,
                 !.expOffset = p.expOffset - fraction]

\* One more digit of the exponent, in EXP_DIGITS.
ExponentDigit(p, digit) ==
  IF p.exp > maxExp \div 10 THEN [p EXCEPT !.state = "INVALID"]
  ELSE IF p.exp * 10 > maxExp - digit
       THEN [p EXCEPT !.state = "INVALID", !.exp = p.exp * 10]
  ELSE [p EXCEPT !.exp = p.exp * 10 + digit]

\* The first digit of the number.
FirstDigit(p, c, next) == [p EXCEPT !.valueAbs = digitValue(c), !.state = next]

\* The switch of the loop for the character c.
ParseChar(p, c) ==
  CASE p.state = "START" ->
         IF c = "-" THEN [p EXCEPT !.sign = TRUE, !.state = "AFTER_SIGN"]
         ELSE IF c = "+" THEN [p EXCEPT !.state = "AFTER_SIGN"]
         ELSE IF c = "." THEN [p EXCEPT !.state = "LONELY_DOT"]
         ELSE IF isDigit(c) THEN FirstDigit(p, c, "INT_PART")
         ELSE [p EXCEPT !.state = "INVALID"]
    [] p.state = "AFTER_SIGN" ->
         IF c = "." THEN [p EXCEPT !.state = "LONELY_DOT"]
         ELSE IF isDigit(c) THEN FirstDigit(p, c, "INT_PART")
         ELSE [p EXCEPT !.state = "INVALID"]
    [] p.state = "LONELY_DOT" ->
         IF isDigit(c)
         THEN [FirstDigit(p, c, "FRAC_PART") EXCEPT !.expOffset = p.expOffset - 1]
         ELSE [p EXCEPT !.state = "INVALID"]
    [] p.state = "INT_PART" ->
         IF c = "." THEN [p EXCEPT !.state = "FRAC_PART"]
         ELSE IF c \in {"e", "E"} THEN [p EXCEPT !.state = "EXP"]
         ELSE IF isDigit(c) THEN NumberDigit(p, digitValue(c), 0)
         ELSE [p EXCEPT !.state = "INVALID"]
    [] p.state = "FRAC_PART" ->
         IF c \in {"e", "E"} THEN [p EXCEPT !.state = "EXP"]
         ELSE IF isDigit(c) THEN NumberDigit(p, digitValue(c), 1)
         ELSE [p EXCEPT !.state = "INVALID"]
    [] p.state = "EXP" ->
         IF c = "-" THEN [p EXCEPT !.expSign = TRUE, !.state = "EXP_AFTER_SIGN"]
         ELSE IF c = "+" THEN [p EXCEPT !.state = "EXP_AFTER_SIGN"]
         ELSE IF isDigit(c) THEN [p EXCEPT !.exp = digitValue(c), !.state = "EXP_DIGITS"]
         ELSE [p EXCEPT !.state = "INVALID"]
    [] p.state = "EXP_AFTER_SIGN" ->
         IF isDigit(c) THEN [p EXCEPT !.exp = digitValue(c), !.state = "EXP_DIGITS"]
         ELSE [p EXCEPT !.state = "INVALID"]
    [] p.state = "EXP_DIGITS" ->
         IF isDigit(c) THEN ExponentDigit(p, digitValue(c))
         ELSE [p EXCEPT !.state = "INVALID"]
    [] OTHER -> p

RECURSIVE ParseLoop(_, _, _)
\* for (QChar c : str), from the character at index i.
ParseLoop(p, s, i) ==
  IF i > Len(s) \/ p.state = "INVALID" THEN p
  ELSE ParseLoop(ParseChar(p, s[i]), s, i + 1)

\* The exponent with the offset of the decimal point applied; -1 when that
\* would overflow.
AppliedExponent(p) ==
  LET expOffsetAbs == IF p.expOffset < 0 THEN 0 - p.expOffset ELSE p.expOffset
  IN  IF p.expSign = (p.expOffset < 0)
      THEN IF p.exp > maxExp - expOffsetAbs THEN -1 ELSE p.exp + expOffsetAbs
      ELSE IF p.exp < expOffsetAbs THEN -1 ELSE p.exp - expOffsetAbs

RECURSIVE DividedByTen(_, _)
\* for (i < exp): valueAbs /= 10; -1 when a digit that is not zero is lost.
DividedByTen(valueAbs, exp) ==
  IF exp = 0 THEN valueAbs
  ELSE IF valueAbs % 10 # 0 THEN -1
  ELSE DividedByTen(valueAbs \div 10, exp - 1)

RECURSIVE TimesTen(_, _)
\* for (i < exp): valueAbs *= 10; -1 when that would overflow.
TimesTen(valueAbs, exp) ==
  IF exp = 0 THEN valueAbs
  ELSE IF valueAbs > max_u \div 10 THEN -1
  ELSE TimesTen(valueAbs * 10, exp - 1)

\* FitsSigned with the limit of the positive values for both signs.
FitsSignedSymmetric(sign, valueAbs) == valueAbs <= ToUnsigned(TMax)

\* The value with its sign is a value of T.
FitsSigned(sign, valueAbs) ==
  IF sign THEN valueAbs <= ToUnsigned(TMin) ELSE valueAbs <= ToUnsigned(TMax)

\* Toolbox::decimalFixedPointFromString(s, pos): ok is false when it throws.
FromFixedPointString(s, pos) ==
  LET p == ParseLoop(ParseStart(pos), s, 1)
      failed == [ok |-> FALSE, result |-> 0]
  IN  IF p.state \notin {"INT_PART", "FRAC_PART", "EXP_DIGITS"} THEN failed
      ELSE LET exp == AppliedExponent(p)
           IN  IF exp < 0 THEN failed
               ELSE IF p.valueAbs = 0 THEN [ok |-> TRUE, result |-> 0]
               ELSE LET valueAbs == IF p.expSign THEN DividedByTen(p.valueAbs, exp)
                                    ELSE TimesTen(p.valueAbs, exp)
                    IN  IF valueAbs < 0 THEN failed
                        ELSE IF ~FitsSigned(p.sign, valueAbs) THEN failed
                        ELSE [ok |-> TRUE,
                              result |-> IF p.sign
                                         THEN ToSigned((TModulus - valueAbs) % TModulus)
                                         ELSE ToSigned(valueAbs)]

\* What the conversions leave alone.
ToolboxFrame ==
  /\ UNCHANGED <<fixedValue, pointPos>>
  /\ UNCHANGED <<pins, mApproval, signalVars, textVars, padVars>>
  /\ UNCHANGED <<messages, approvals, approvedMsgCount, printedMessages, lastMessages,
                 value, suffix>>
  /\ UNCHANGED drcVars

decimalFixedPointToString ==
  /\ pc = "decimalFixedPointToString"
  /\ pc' = "decimalFixedPointFromString"
  /\ fixedStr' = ToFixedPointString(fixedValue, pointPos)
  /\ UNCHANGED <<result, parseError>>
  /\ ToolboxFrame

decimalFixedPointFromString ==
  /\ pc = "decimalFixedPointFromString"
  /\ pc' = "parsed"
  /\ LET r == FromFixedPointString(fixedStr, pointPos)
     IN  /\ result' = r.result
         /\ parseError' = ~r.ok
  /\ UNCHANGED fixedStr
  /\ ToolboxFrame

\* Every value of T with every number of decimal positions from 1.
InitFixedPoint ==
  /\ OnlyLibrary
  /\ LibraryIdle("Toolbox")
  /\ pc = "decimalFixedPointToString"
  /\ fixedValue \in TMin..TMax
  /\ pointPos \in 1..MaxPointPos
  /\ fixedStr = <<>>
  /\ result = 0
  /\ parseError = FALSE

SpecFixedPoint ==
  InitFixedPoint /\ [][decimalFixedPointToString \/ decimalFixedPointFromString]_vars

(***************************************************************************)
(* What the signals and the status log of a run show.                      *)
(***************************************************************************)
ProgressValues ==
  LET p == SelectSeq(signals, LAMBDA s : s[1] = "progressPercent")
  IN  [i \in DOMAIN p |-> p[i][2]]

MessageKinds == [i \in DOMAIN mMessages |-> mMessages[i].kind]

\* The checks of a run that get past their early return, in call order.
ChecksThatRan ==
  SelectSeq([i \in DOMAIN ExecuteOrder |-> ExecuteOrder[i][1]],
            LAMBDA c : CheckEnabled(c) /\ (quick => c \in QuickChecks))

AllChecksEnabled == \A c \in CheckNames : CheckEnabled(c)

QuickKinds ==
  {"MinimumWidthViolation", "CopperCopperClearanceViolation",
   "CopperBoardClearanceViolation", "CopperHoleClearanceViolation"}

SlowStatuses ==
  {"Check drill clearances...", "Check drill to board edge clearances...",
   "Check PTH annular rings...", "Check NPTH drill diameters...",
   "Check NPTH slot widths...", "Check PTH drill diameters...",
   "Check PTH slot widths...", "Check for disallowed NPTH slots...",
   "Check for disallowed PTH slots...", "Check pad connections...",
   "Check courtyard clearances...", "Check board outline...",
   "Check for unplaced components...", "Check configured default devices...",
   "Check for missing connections...", "Check for stale objects..."}

\* C1: a run with quick = true emits messages of the four quick kinds only;
\* none of the sixteen later checks is entered, writes a status entry or emits
\* a message.
C1_QuickRunsFourChecks ==
  (quick /\ pc # "idle") =>
    /\ \A i \in DOMAIN mMessages : mMessages[i].kind \in QuickKinds
    /\ \A i \in DOMAIN signals :
         signals[i][1] = "progressMessage" => signals[i][2] \in QuickKinds
    /\ pc \in QuickChecks \cup {"finish", "done", "threw"}
    /\ \A i \in DOMAIN mProgressStatus : mProgressStatus[i] \notin SlowStatuses
    /\ \A i \in DOMAIN signals :
         signals[i][1] = "progressStatus" => signals[i][2] \notin SlowStatuses

\* A quick run on a board full of violations has ended with messages of each
\* of the four kinds.
C1_Witness ==
  /\ quick
  /\ pc = "done"
  /\ board = BoardA
  /\ Range(MessageKinds) = QuickKinds

\* The messages of check c when the devices and the layers are visited in the
\* order in which the board lists them.
MessagesInBoardOrder(c) ==
  CASE c = "checkInvalidPadConnections" ->
         InvalidPadConnectionMessagesIn(board.copperLayers)
    [] c = "checkCourtyardClearances" ->
         CourtyardMessagesOfLayer("top_courtyard", board.devices)
           \o CourtyardMessagesOfLayer("bot_courtyard", board.devices)
    [] OTHER -> CheckMessages(c)

\* C2: the sequence of messages of a completed run is a function of the
\* board, the settings and quick alone: inside every check the messages come
\* in the order in which the board lists its objects.
C2_OrderFixedByBoard ==
  pc = "done" =>
    mMessages = Concat([i \in DOMAIN ChecksThatRan |->
                          MessagesInBoardOrder(ChecksThatRan[i])])

CheckpointValues ==
  {2, 12, 14, 24, 34, 44, 49, 54, 64, 66, 68, 70, 72, 74, 76, 78, 88, 91, 92,
   93, 95, 97, 100}

\* C3: the progress values of a run never decrease, every one is a checkpoint
\* value, and the last one before finished is 100.
C3_ProgressMonotone ==
  /\ \A i \in DOMAIN ProgressValues :
       /\ ProgressValues[i] \in CheckpointValues
       /\ i > 1 => ProgressValues[i - 1] <= ProgressValues[i]
  /\ pc # "idle" => mProgressPercent = ProgressValues[Len(ProgressValues)]
  /\ \A i \in DOMAIN signals :
       signals[i][1] = "finished" =>
         /\ i > 1
         /\ signals[i - 1][1] = "progressPercent"
         /\ signals[i - 1][2] = 100

\* A full run with every check enabled has reported all 23 checkpoints.
C3_Witness ==
  /\ pc = "done"
  /\ ~quick
  /\ AllChecksEnabled
  /\ Len(ProgressValues) = Cardinality(CheckpointValues)
  /\ signals[Len(signals)][1] = "finished"

CheckStatuses == [i \in DOMAIN ChecksThatRan |-> CheckStatus(ChecksThatRan[i])]

\* C4 as the specification states it: after a completed run the status log
\* holds one entry per check that ran and no other entry.
C4_OneEntryPerCheckOnly == pc = "done" => mProgressStatus = CheckStatuses

\* C4: after a completed run the status log holds, in this order, the entry
\* "Rebuild planes..." when quick = false, one entry per check that ran, and
\* the final entry "Finished with N message(s)!", N the number of messages:
\* its length is the number of checks that ran plus 1 (quick) or 2.
C4_StatusLog ==
  pc = "done" =>
    /\ mProgressStatus =
         (IF quick THEN <<>> ELSE <<"Rebuild planes...">>)
           \o CheckStatuses
           \o <<"Finished with " \o ToString(Len(mMessages)) \o " message(s)!">>
    /\ Len(mProgressStatus) = Len(ChecksThatRan) + (IF quick THEN 1 ELSE 2)

\* A full run with a disabled check has ended: 19 checks ran, 21 entries.
C4_Witness ==
  /\ pc = "done"
  /\ ~quick
  /\ mSettings.minCopperWidth = 0
  /\ Len(ChecksThatRan) = 19
  /\ Len(mProgressStatus) = 21

\* The status texts of the twenty checks in the order of the list of the
\* specification.
SpecOrderStatuses ==
  <<"Check copper widths...", "Check copper clearances...",
    "Check board clearances...", "Check hole clearances...",
    "Check drill clearances...", "Check drill to board edge clearances...",
    "Check PTH annular rings...", "Check NPTH drill diameters...",
    "Check PTH drill diameters...", "Check NPTH slot widths...",
    "Check PTH slot widths...", "Check for disallowed NPTH slots...",
    "Check for disallowed PTH slots...", "Check pad connections...",
    "Check courtyard clearances...", "Check board outline...",
    "Check for unplaced components...", "Check configured default devices...",
    "Check for missing connections...", "Check for stale objects...">>

\* The same texts with the NPTH slot width check before the PTH drill
\* diameter check.
CallOrderStatuses ==
  <<"Check copper widths...", "Check copper clearances...",
    "Check board clearances...", "Check hole clearances...",
    "Check drill clearances...", "Check drill to board edge clearances...",
    "Check PTH annular rings...", "Check NPTH drill diameters...",
    "Check NPTH slot widths...", "Check PTH drill diameters...",
    "Check PTH slot widths...", "Check for disallowed NPTH slots...",
    "Check for disallowed PTH slots...", "Check pad connections...",
    "Check courtyard clearances...", "Check board outline...",
    "Check for unplaced components...", "Check configured default devices...",
    "Check for missing connections...", "Check for stale objects...">>

\* The kinds of message the check with the given status text can emit.
KindsOfStatus(status) ==
  CASE status = "Check copper widths..." -> {"MinimumWidthViolation"}
    [] status = "Check copper clearances..." -> {"CopperCopperClearanceViolation"}
    [] status = "Check board clearances..." -> {"CopperBoardClearanceViolation"}
    [] status = "Check hole clearances..." -> {"CopperHoleClearanceViolation"}
    [] status = "Check drill clearances..." -> {"DrillDrillClearanceViolation"}
    [] status = "Check drill to board edge clearances..." ->
         {"DrillBoardClearanceViolation"}
    [] status = "Check PTH annular rings..." -> {"MinimumAnnularRingViolation"}
    [] status = "Check NPTH drill diameters..." -> {"MinimumDrillDiameterViolation"}
    [] status = "Check NPTH slot widths..." -> {"MinimumSlotWidthViolation"}
    [] status = "Check PTH drill diameters..." -> {"MinimumDrillDiameterViolation"}
    [] status = "Check PTH slot widths..." -> {"MinimumSlotWidthViolation"}
    [] status = "Check for disallowed NPTH slots..." -> {"ForbiddenSlot"}
    [] status = "Check for disallowed PTH slots..." -> {"ForbiddenSlot"}
    [] status = "Check pad connections..." -> {"InvalidPadConnection"}
    [] status = "Check courtyard clearances..." -> {"CourtyardOverlap"}
    [] status = "Check board outline..." ->
         {"OpenBoardOutlinePolygon", "MissingBoardOutline",
          "MultipleBoardOutlines", "MinimumBoardOutlineInnerRadiusViolation"}
    [] status = "Check for unplaced components..." -> {"MissingDevice"}
    [] status = "Check configured default devices..." -> {"DefaultDeviceMismatch"}
    [] status = "Check for missing connections..." -> {"MissingConnection"}
    [] status = "Check for stale objects..." ->
         {"EmptyNetSegment", "UnconnectedJunction"}
    [] OTHER -> {}

\* The index of the last status signal before signal i, 0 when there is none.
LastStatusBefore(i) ==
  LET js == {j \in 1..(i - 1) : signals[j][1] = "progressStatus"}
  IN  IF js = {} THEN 0 ELSE CHOOSE j \in js : \A k \in js : k <= j

\* Every message signal follows the status signal of a check that emits its
\* kind, with no status signal of another check in between.
StatusPrecedesMessages ==
  \A i \in DOMAIN signals :
    signals[i][1] = "progressMessage" =>
      /\ LastStatusBefore(i) # 0
      /\ signals[i][2] \in KindsOfStatus(signals[LastStatusBefore(i)][2])

\* The status entries of the checks in the log of a run with quick = false.
CheckEntries == SelectSeq(mProgressStatus, LAMBDA t : t \in Range(SpecOrderStatuses))

\* C5 as the specification states it: with quick = false and every check
\* enabled the checks write their status entries in the order of the list of
\* the specification (PTH drill diameter before NPTH slot width), every status
\* entry before the messages of its check.
C5_SpecListOrder ==
  /\ (~quick /\ pc # "idle" /\ AllChecksEnabled) =>
       IsPrefix(CheckEntries, SpecOrderStatuses)
  /\ StatusPrecedesMessages

\* C5: with quick = false and every check enabled the checks write their
\* status entries in the order MinimumCopperWidth, CopperCopperClearance,
\* CopperBoardClearance, CopperHoleClearance, DrillDrillClearance,
\* DrillBoardClearance, MinimumPthAnnularRing, MinimumNpthDrillDiameter,
\* MinimumNpthSlotWidth, MinimumPthDrillDiameter, MinimumPthSlotWidth,
\* AllowedNpthSlots, AllowedPthSlots, InvalidPadConnection,
\* CourtyardClearances, BoardOutline, UnplacedComponents,
\* CircuitDefaultDevices, MissingConnections, StaleObjects; a completed run
\* has written all twenty; the status entry of a check precedes every message
\* of that check.
C5_CallOrder ==
  /\ (~quick /\ pc # "idle" /\ AllChecksEnabled) =>
       /\ IsPrefix(CheckEntries, CallOrderStatuses)
       /\ pc = "done" => CheckEntries = CallOrderStatuses
  /\ StatusPrecedesMessages

\* A full run with every check enabled has ended on the board on which every
\* check finds something.
C5_Witness ==
  /\ pc = "done"
  /\ ~quick
  /\ AllChecksEnabled
  /\ board = BoardA
  /\ Len(CheckEntries) = 20
  /\ Len(mMessages) > 20

Count(seq, x) == Cardinality({i \in DOMAIN seq : seq[i] = x})

\* C6: started is the first signal of a run and finished the last one of a
\* completed run; Board::rebuildAllPlanes() is never called when quick = true,
\* is called exactly once when quick = false, and has returned, with its
\* status entry written and the planes filled, before the first check starts.
C6_StartedFinishedRebuild ==
  pc # "idle" =>
    /\ signals[1][1] = "started"
    /\ \A i \in DOMAIN signals :
         /\ i > 1 => signals[i][1] # "started"
         /\ signals[i][1] = "finished" => (i = Len(signals) /\ pc = "done")
    /\ pc = "done" => signals[Len(signals)][1] = "finished"
    /\ quick =>
         /\ Count(boardCalls, "rebuildAllPlanes") = 0
         /\ Count(mProgressStatus, "Rebuild planes...") = 0
    /\ (~quick /\ pc = "rebuildPlanes") => (boardCalls = <<>> /\ mProgressStatus = <<>>)
    /\ (~quick /\ pc # "rebuildPlanes") =>
         /\ Count(boardCalls, "rebuildAllPlanes") = 1
         /\ boardCalls[1] = "rebuildAllPlanes"
         /\ mProgressStatus[1] = "Rebuild planes..."
         /\ Count(mProgressStatus, "Rebuild planes...") = 1
         /\ planeFragments = RebuiltFragments

\* A full run on a board with a plane has ended: the plane is filled and the
\* checks have run after the rebuild.
C6_Witness ==
  /\ pc = "done"
  /\ ~quick
  /\ board = BoardA
  /\ boardCalls[1] = "rebuildAllPlanes"
  /\ \E u \in DOMAIN planeFragments : planeFragments[u] # {}
  /\ Len(mProgressStatus) > 2

C8_CaughtInsideExecute == pc # "threw"

\* C8: execute() has no handler: the exception of a check leaves execute()
\* and reaches the caller. No later check runs, neither the final status
\* entry, nor progress 100, nor finished is emitted, the message list holds
\* exactly the messages emitted before the exception, and the command line
\* caller reports it once, as one line on the error output.
C8_ExceptionLeavesExecute ==
  exception # "" =>
    /\ pc \in {"threw", "failed"}
    /\ mProgressStatus[Len(mProgressStatus)] = CheckStatus(exception)
    /\ \A i \in DOMAIN signals : signals[i][1] # "finished"
    /\ mProgressPercent # 100
    /\ MessageSignals(mMessages) =
         SelectSeq(signals, LAMBDA sig : sig[1] = "progressMessage")
    /\ pc = "threw" => stderr = <<>>
    /\ pc = "failed" => stderr = <<"ERROR: " \o exception>>

\* The courtyard check has thrown after messages had been emitted and the
\* caller has printed the error.
C8_Witness ==
  /\ exception = "checkCourtyardClearances"
  /\ pc = "failed"
  /\ Len(stderr) = 1
  /\ Len(mMessages) > 0
  /\ mProgressStatus[Len(mProgressStatus)] = "Check courtyard clearances..."

ClearanceKinds ==
  {"CopperCopperClearanceViolation", "CopperBoardClearanceViolation",
   "CopperHoleClearanceViolation", "DrillDrillClearanceViolation",
   "DrillBoardClearanceViolation"}

AllClearancesZero ==
  /\ mSettings.minCopperCopperClearance = 0
  /\ mSettings.minCopperBoardClearance = 0
  /\ mSettings.minCopperNpthClearance = 0
  /\ mSettings.minDrillDrillClearance = 0
  /\ mSettings.minDrillBoardClearance = 0

\* C9: with the five clearance settings 0 a run emits no message of the five
\* clearance kinds, whatever the board and the value of quick.
C9_NoClearanceMessage ==
  AllClearancesZero =>
    /\ \A i \in DOMAIN mMessages : mMessages[i].kind \notin ClearanceKinds
    /\ \A i \in DOMAIN signals :
         signals[i][1] = "progressMessage" => signals[i][2] \notin ClearanceKinds

\* A full run with the five clearance settings 0 has ended on the board whose
\* copper and drills are too close to each other and to the board edge, with
\* messages of other kinds.
C9_Witness ==
  /\ AllClearancesZero
  /\ pc = "done"
  /\ ~quick
  /\ board = BoardA
  /\ Len(mMessages) > 0

\* C10 as the specification states it: the only non-const call of a run on
\* the board is the one call of rebuildAllPlanes(), and a quick run makes
\* none.
C10_OnlyRebuildPlanes ==
  /\ boardCalls \in {<<>>, <<"rebuildAllPlanes">>}
  /\ quick => boardCalls = <<>>

\* C10: the non-const calls of a run on the board are the one call of
\* rebuildAllPlanes() at the start and the one call of forceAirWiresRebuild()
\* in the missing connections check, both only when quick = false; a quick
\* run makes none; the planes change in rebuildPlanes() only, the air wires
\* in checkForMissingConnections() only, and nothing else of the board
\* changes.
C10_BoardCalls ==
  [][/\ IsPrefix(boardCalls', <<"rebuildAllPlanes", "forceAirWiresRebuild">>)
     /\ (quick' /\ pc' # "idle") => boardCalls' = <<>>
     /\ Count(boardCalls', "forceAirWiresRebuild") = 1 =>
          pc' \in {"checkForStaleObjects", "finish", "done"}
     /\ planeFragments' # planeFragments => (pc = "rebuildPlanes" /\ ~quick)
     /\ airWires' # airWires => (pc = "checkForMissingConnections" /\ ~quick)
     /\ board' = board]_vars

\* A full run has ended after both calls, with the air wires rebuilt.
C10_Witness ==
  /\ pc = "done"
  /\ ~quick
  /\ boardCalls = <<"rebuildAllPlanes", "forceAirWiresRebuild">>
  /\ airWires # <<>>

\* The messages of check c on a newly constructed object, whose cache is
\* empty.
FreshMessages(c) ==
  CASE c = "checkCopperHoleClearances" -> CopperHoleClearanceMessagesWith(<<>>)
    [] c = "checkMinimumPthAnnularRing" -> MinimumPthAnnularRingMessagesWith(<<>>)
    [] OTHER -> CheckMessages(c)

\* C11: in every run of an object, the first or a later one, every cached
\* copper area a check may read equals the area computed from the board with
\* the plane setting of the run, and the messages of a completed run are
\* those of the same run on a new object.
C11_CacheLivesForOneRun ==
  /\ (pc \in {"checkCopperHoleClearances", "checkMinimumPthAnnularRing"}) =>
       \A k \in DOMAIN mCachedPaths : mCachedPaths[k] = addCopper(k[1], mIgnorePlanes)
  /\ pc = "done" =>
       mMessages = Concat([i \in DOMAIN ChecksThatRan |-> FreshMessages(ChecksThatRan[i])])

\* The indices of the messages whose approval key is in the set.
ApprovedIndices == {i \in DOMAIN messages : messages[i].approval \in approvals}

\* The rank of the severity an entry of the returned list starts with.
PrintedSeverity(printed) ==
  CASE printed[2] = "HINT" -> 0
    [] printed[2] = "WARNING" -> 1
    [] printed[2] = "ERROR" -> 2

\* C12: after prepareRuleCheckMessages() the counter is the number of
\* messages whose approval key is in the set, the returned list holds one
\* entry for each other message and nothing else, the two numbers add up to
\* the length of the list, and the returned list is ordered by severity,
\* highest first, and among equal severities by the text in ascending
\* collation order (case ignored, digits read as numbers).
C12_ApprovalPartition ==
  pc = "returned" =>
    /\ approvedMsgCount = Cardinality(ApprovedIndices)
    /\ Len(printedMessages) = Cardinality(DOMAIN messages \ ApprovedIndices)
    /\ approvedMsgCount + Len(printedMessages) = Len(messages)
    /\ \A msg \in RuleCheckMessages :
         Cardinality({i \in DOMAIN printedMessages :
                        printedMessages[i] = FormatMessage(msg)})
           = Cardinality({i \in DOMAIN messages \ ApprovedIndices :
                            FormatMessage(messages[i]) = FormatMessage(msg)})
    /\ \A i, j \in DOMAIN printedMessages :
         i < j =>
           /\ PrintedSeverity(printedMessages[i]) >= PrintedSeverity(printedMessages[j])
           /\ PrintedSeverity(printedMessages[i]) = PrintedSeverity(printedMessages[j])
                => ~collator(printedMessages[j][4], printedMessages[i][4])

\* A list with an approved hint between two messages that are not approved
\* has been reported: the error comes before the warning.
C12_Witness ==
  /\ pc = "returned"
  /\ Len(messages) = 3
  /\ messages[1].severity = Severity.Warning
  /\ messages[3].severity = Severity.Error
  /\ approvedMsgCount = 1
  /\ Len(printedMessages) = 2
  /\ printedMessages[1][2] = "ERROR"

\* The two objects of a message about a pair, in the order in which the
\* constructor of the message got them.
PairObjects(msg) ==
  CASE msg.kind = "CopperCopperClearanceViolation" ->
         <<SubSeq(msg.objs, 1, 5), SubSeq(msg.objs, 6, 10)>>
    [] msg.kind = "DrillDrillClearanceViolation" ->
         <<SubSeq(msg.objs, 1, 2), SubSeq(msg.objs, 3, 4)>>
    [] msg.kind = "CourtyardOverlap" -> <<<<msg.objs[1]>>, <<msg.objs[2]>>>>

\* RuleCheckMessage::getApproval() of a message about a pair: in the canonical
\* form of the key the two objects are sorted, so the key holds them without
\* an order.
getApproval(msg) == <<msg.kind, {PairObjects(msg)[1], PairObjects(msg)[2]}>>

\* The messages of the three pair checks in the list of a run.
PairMessagesOf(msgs) ==
  SelectSeq(msgs, LAMBDA m : m.kind \in {"CopperCopperClearanceViolation",
                                         "DrillDrillClearanceViolation",
                                         "CourtyardOverlap"})

\* The approval keys of the pairs that a list of messages reports.
PairKeys(msgs) == {getApproval(PairMessagesOf(msgs)[i]) : i \in DOMAIN PairMessagesOf(msgs)}

\* The number of messages of a list that have the key.
KeyCount(msgs, key) ==
  Cardinality({i \in DOMAIN PairMessagesOf(msgs) : getApproval(PairMessagesOf(msgs)[i]) = key})

\* A second run has returned, on a board that lists the objects of the
\* first run in another order.
SecondRunOnRelistedBoard ==
  pc = "done" /\ runs = 2 /\ exception = "" /\ board \notin ScenarioBoards

Reported(kind, objs) ==
  Cardinality({i \in DOMAIN mMessages :
                 mMessages[i].kind = kind /\ mMessages[i].objs = objs})

\* The first run of all checks on a new BoardDesignRuleCheck has returned.
FirstFullRunDone == pc = "done" /\ ~quick /\ runs = 1

\* The annular ring of the via, outer size minus drill diameter, halved, is
\* smaller than the minimum.
RingTooSmall(via) == via.size - via.drill < 2 * mSettings.minPthAnnularRing

\* Every copper layer has copper all over the circle around the via whose
\* diameter is the drill diameter plus twice the minimum ring, less 1 nm.
RingAreaCovered(via) ==
  \A l \in Range(board.copperLayers) :
    subtract(convert(circle(via.drill + 2 * mSettings.minPthAnnularRing - 1, via.pos)),
             addCopper(l, FALSE)) = {}

\* C14 as stated: a via whose annular ring is smaller than the minimum
\* yields exactly one MinimumAnnularRingViolation in a run of all checks,
\* also when planes of its net cover every copper layer.
C14_OneViolationUnderPlanes ==
  FirstFullRunDone =>
    \A via \in Range(AllVias) :
      RingTooSmall(via) => Reported("MinimumAnnularRingViolation", <<"via", via.uuid>>) = 1

\* C14, amended: in the first run of all checks on a new object a via yields
\* exactly one MinimumAnnularRingViolation when some copper layer lacks copper
\* somewhere in the circle of diameter drill + 2 R - 1 around it, and none
\* when every copper layer covers that circle: a via with too small a ring is
\* reported unless other copper, such as a plane on every layer, surrounds it.
C14_RingUnlessCovered ==
  FirstFullRunDone =>
    \A via \in Range(AllVias) :
      Reported("MinimumAnnularRingViolation", <<"via", via.uuid>>) =
        IF RingAreaCovered(via) THEN 0 ELSE 1

\* Scenario S2 has run: via1, under planes on both layers, is not reported,
\* via2, under a plane on one layer, is; the rings of both are too small.
C14_Witness ==
  /\ FirstFullRunDone
  /\ board = BoardS2
  /\ \A via \in {AllVias[1], AllVias[2]} :
       RingTooSmall(via) /\ via.drill = 300000 /\ via.size = 500000
  /\ mSettings.minPthAnnularRing = 150000
  /\ Reported("MinimumAnnularRingViolation", <<"via", "via1">>) = 0
  /\ Reported("MinimumAnnularRingViolation", <<"via", "via2">>) = 1

\* The footprint polygons on the board outline layer whose path is open, as
\* <<device, polygon>> pairs.
OpenOutlinePolygons ==
  {dp \in Range(DevicePolygons) :
     dp[2].layer = "brd_outlines" /\ dp[2].path[1] # dp[2].path[Len(dp[2].path)]}

\* The objects on the board outline layer: polygons of the board, polygons
\* and circles of the footprints.
OutlineObjects ==
  {p.uuid : p \in {q \in Range(board.polygons) : q.layer = "brd_outlines"}}
  \cup {dp[2].uuid : dp \in {q \in Range(DevicePolygons) : q[2].layer = "brd_outlines"}}
  \cup {dc[2].uuid : dc \in {q \in Range(DeviceCircles) : q[2].layer = "brd_outlines"}}

\* C15 as stated: a run of all checks yields one OpenBoardOutlinePolygon for
\* every open footprint polygon on the board outline layer, and one
\* MissingBoardOutline as well when that polygon is the only outline object.
C15_OpenOutlineAndMissing ==
  (pc = "done" /\ ~quick) =>
    \A dp \in OpenOutlinePolygons :
      /\ Reported("OpenBoardOutlinePolygon", <<dp[1].uuid, dp[2].uuid>>) = 1
      /\ OutlineObjects = {dp[2].uuid} => Reported("MissingBoardOutline", <<>>) = 1

\* C15, amended: a run of all checks yields one OpenBoardOutlinePolygon for
\* every open footprint polygon on the board outline layer; it yields one
\* MissingBoardOutline when the board has no object on the outline layer at
\* all and none otherwise, so none when an open polygon is the only outline.
C15_OpenOutlineCounts ==
  (pc = "done" /\ ~quick) =>
    /\ \A dp \in OpenOutlinePolygons :
         Reported("OpenBoardOutlinePolygon", <<dp[1].uuid, dp[2].uuid>>) = 1
    /\ Reported("MissingBoardOutline", <<>>) = IF OutlineObjects = {} THEN 1 ELSE 0

\* Scenario S5 has run: the open polygon is the only outline object; it is
\* reported and no outline is missed.
C15_Witness ==
  /\ pc = "done"
  /\ ~quick
  /\ board = BoardS5
  /\ OutlineObjects = {"pg_open"}
  /\ Reported("OpenBoardOutlinePolygon", <<"dev1", "pg_open">>) = 1
  /\ Reported("MissingBoardOutline", <<>>) = 0

\* The class of a hole: 0 round drill, 1 single-segment straight slot,
\* 2 multi-segment straight slot, 3 curved slot; the allowances None,
\* SingleSegmentStraight, MultiSegmentStraight and Any are 0 to 3.
HoleClass(hole) ==
  IF hole.curved THEN 3
  ELSE IF Len(hole.path) > 2 THEN 2
  ELSE IF Len(hole.path) = 2 THEN 1
  ELSE 0

\* The ForbiddenSlot messages about a hole of the board, of a footprint and
\* of a pad.
ForbiddenBoardHole(hole) == Reported("ForbiddenSlot", <<"hole", hole.uuid>>)

ForbiddenDeviceHole(dh) == Reported("ForbiddenSlot", <<"device", dh[1].uuid, dh[2].uuid>>)

ForbiddenPadHole(dph) == Reported("ForbiddenSlot", <<"pad", dph[2].uuid, dph[3].uuid>>)

\* C16 as stated: in a run of all checks with allowed_pth_slots = None a
\* footprint hole that is a single-segment straight slot yields exactly one
\* ForbiddenSlot, whatever allowed_npth_slots is; a pad hole yields one
\* exactly when its class exceeds the allowance, a round drill never.
C16_PackageSlotUnderPthAllowance ==
  (pc = "done" /\ ~quick) =>
    /\ mSettings.allowedPthSlots = AllowedSlots.None =>
         \A dh \in Range(DeviceHoles) : HoleClass(dh[2]) = 1 => ForbiddenDeviceHole(dh) = 1
    /\ \A dph \in Range(DevicePadHoles) :
         ForbiddenPadHole(dph) =
           IF HoleClass(dph[3]) > mSettings.allowedPthSlots THEN 1 ELSE 0

\* C16, amended: in a run of all checks a hole of the board or of a footprint
\* yields exactly one ForbiddenSlot when its class exceeds allowed_npth_slots
\* and none otherwise, whatever allowed_pth_slots is; a pad hole yields
\* exactly one when its class exceeds allowed_pth_slots and none otherwise;
\* a round drill never yields one.
C16_SlotUnderOwnAllowance ==
  (pc = "done" /\ ~quick) =>
    /\ \A hole \in Range(board.holes) :
         ForbiddenBoardHole(hole) =
           IF HoleClass(hole) > mSettings.allowedNpthSlots THEN 1 ELSE 0
    /\ \A dh \in Range(DeviceHoles) :
         ForbiddenDeviceHole(dh) =
           IF HoleClass(dh[2]) > mSettings.allowedNpthSlots THEN 1 ELSE 0
    /\ \A dph \in Range(DevicePadHoles) :
         ForbiddenPadHole(dph) =
           IF HoleClass(dph[3]) > mSettings.allowedPthSlots THEN 1 ELSE 0

\* Scenario S4 has run with allowed_pth_slots = None and single-segment
\* slots allowed for holes that are not plated: the package hole fh1 is not
\* reported, the pad hole of the same class is, the multi-segment hole of
\* the board is, no round drill is.
C16_Witness ==
  /\ pc = "done"
  /\ ~quick
  /\ board = BoardS4
  /\ mSettings.allowedPthSlots = AllowedSlots.None
  /\ mSettings.allowedNpthSlots = AllowedSlots.SingleSegmentStraight
  /\ Reported("ForbiddenSlot", <<"device", "dev1", "fh1">>) = 0
  /\ Reported("ForbiddenSlot", <<"pad", "pad1", "ph_single">>) = 1
  /\ Reported("ForbiddenSlot", <<"hole", "h_multi">>) = 1
  /\ Reported("ForbiddenSlot", <<"hole", "h_round">>) = 0
  /\ Reported("ForbiddenSlot", <<"pad", "pad1", "ph_round">>) = 0

\* The copper items of checkCopperCopperClearances() in the finished run,
\* inflated as the check inflates them.
InflatedCopperItems ==
  CopperItems(Max(((mSettings.minCopperCopperClearance - maxArcTolerance) \div 2) - 1, 0))

\* What the message about two copper items names, first item first.
CopperPairObjects(a, b) ==
  <<a.layer, a.netSignal, a.item, a.polygon, a.circle,
    b.layer, b.netSignal, b.item, b.polygon, b.circle>>

\* The messages about the pair of copper items, whichever was visited first.
CopperPairReported(a, b) ==
  Reported("CopperCopperClearanceViolation", CopperPairObjects(a, b))
  + Reported("CopperCopperClearanceViolation", CopperPairObjects(b, a))

NetsDiffer(a, b) == a.netSignal # b.netSignal \/ a.netSignal = NoNet \/ b.netSignal = NoNet

LayersMeet(a, b) == a.layer = b.layer \/ a.layer = "" \/ b.layer = ""

\* C19: after a run with min_copper_copper_clearance > 0 there is exactly
\* one CopperCopperClearanceViolation for a pair of distinct copper items
\* when their nets differ or one of them has no net, they are on the same
\* layer or one of them is a through-hole item without a layer, and their
\* inflated areas overlap; there is none for any other pair, so none for two
\* items of the same net.
C19_CopperPairCondition ==
  (pc = "done" /\ mSettings.minCopperCopperClearance > 0) =>
    \A i, k \in DOMAIN InflatedCopperItems :
      i < k =>
        LET a == InflatedCopperItems[i]
            b == InflatedCopperItems[k]
        IN  CopperPairReported(a, b) =
              IF /\ NetsDiffer(a, b)
                 /\ LayersMeet(a, b)
                 /\ intersect(a.areas, b.areas) # {}
              THEN 1 ELSE 0

\* A run on BoardPairs has returned: the via and a net line of another net
\* on the bottom layer are reported, two touching net lines of one net are
\* not, and neither are two net lines of different nets that cross on
\* different layers.
C19_Witness ==
  /\ pc = "done"
  /\ board = BoardPairs
  /\ \E a, b \in Range(InflatedCopperItems) :
       /\ a.layer = "" /\ b.layer = "bot_cu" /\ CopperPairReported(a, b) = 1
  /\ \E a, b \in Range(InflatedCopperItems) :
       /\ a # b /\ a.netSignal = b.netSignal /\ a.netSignal # NoNet /\ a.layer = b.layer
       /\ intersect(a.areas, b.areas) # {}
       /\ CopperPairReported(a, b) = 0
  /\ \E a, b \in Range(InflatedCopperItems) :
       /\ a.netSignal # b.netSignal /\ a.layer = "top_cu" /\ b.layer = "bot_cu"
       /\ intersect(a.areas, b.areas) # {}
       /\ CopperPairReported(a, b) = 0
  /\ \E a, b \in Range(InflatedCopperItems) :
       /\ a.netSignal = NoNet /\ b.netSignal # NoNet /\ CopperPairReported(a, b) = 1

\* The courtyard of a device on a layer as it lies on the board: the
\* polygons and the circles of the footprint, moved to the device.
PlacedCourtyard(device, layer) ==
  UNION ({convert(MapPath(DeviceTransform(device), p.path)) :
            p \in {q \in Range(device.polygons) :
                     MapLayer(DeviceTransform(device), q.layer) = layer}}
         \cup {convert(circle(c.diameter, MapPoint(DeviceTransform(device), c.center))) :
                 c \in {q \in Range(device.circles) :
                          MapLayer(DeviceTransform(device), q.layer) = layer}})

\* C20: a run of all checks reports a pair of distinct devices in one
\* CourtyardOverlap for each courtyard layer on which their courtyards, as
\* they lie on the board, intersect; two devices whose courtyards are
\* disjoint on the board are not reported.
C20_CourtyardsAsPlaced ==
  (pc = "done" /\ ~quick) =>
    \A i, k \in DOMAIN board.devices :
      i < k =>
        Reported("CourtyardOverlap", <<board.devices[i].uuid, board.devices[k].uuid>>)
        + Reported("CourtyardOverlap", <<board.devices[k].uuid, board.devices[i].uuid>>)
          = Cardinality({layer \in {"top_courtyard", "bot_courtyard"} :
                           intersect(PlacedCourtyard(board.devices[i], layer),
                                     PlacedCourtyard(board.devices[k], layer)) # {}})

\* The rule of the documentation of ComponentSymbolVariantItemSuffix: only
\* characters of [0-9a-zA-Z_-], not longer than 16 characters.
ValidSuffix(str) ==
  /\ Len(str) <= 16
  /\ \A i \in 1..Len(str) : str[i] \in SuffixRegexClass \cup {"-"}

\* C18: a ComponentSymbolVariantItemSuffix is constructed from a string, and
\* holds that string, exactly when the string has only characters of
\* [0-9a-zA-Z_-] and at most 16 of them; from any other string the
\* constructor throws and there is no value.
C18_ConstructedIffValid ==
  (pc = "returned" /\ suffix # NoSuffix) =>
    IF ValidSuffix(value)
    THEN suffix = [state |-> "constructed", value |-> value]
    ELSE suffix = [state |-> "RuntimeError", value |-> <<>>]

\* The kinds and objects of a list of messages, in order.
Structure(msgs) == [i \in DOMAIN msgs |-> <<msgs[i].kind, msgs[i].objs>>]

\* The kinds of the messages of the checks that compare a length of the board
\* with a length of the settings, or read no length at all.
ComparedKinds ==
  {"MinimumWidthViolation", "MinimumDrillDiameterViolation",
   "MinimumSlotWidthViolation", "ForbiddenSlot", "MissingDevice",
   "DefaultDeviceMismatch", "MissingConnection", "EmptyNetSegment",
   "UnconnectedJunction"}

ComparedMessages(msgs) == SelectSeq(msgs, LAMBDA m : m.kind \in ComparedKinds)

\* The first run of the object made for the scaled board has finished.
ScaledRunDone ==
  pc = "done" /\ runs = 1 /\ exception = "" /\ board \notin ScalingBoards

\* C17 as stated: after all lengths of the board and of the settings are
\* multiplied by k, a run yields the same kinds for the same objects in the
\* same order as the run before the multiplication.
C17_SameStructureAtAnyScale ==
  ScaledRunDone => Structure(mMessages) = Structure(lastMessages)

\* C17, amended: the messages of the checks that compare a length of the
\* board with a length of the settings, or read no length, are the same at
\* any scale: the same kinds for the same objects in the same order.
C17_ComparedChecksAtAnyScale ==
  ScaledRunDone =>
    Structure(ComparedMessages(mMessages)) = Structure(ComparedMessages(lastMessages))

\* A scaled run with messages of the compared checks and with a clearance
\* violation the unscaled run did not have.
C17_Witness ==
  /\ ScaledRunDone
  /\ ComparedMessages(mMessages) # <<>>
  /\ Range(Structure(mMessages)) \ Range(Structure(lastMessages)) # {}

\* Two messages have the same approval key: the same kind and the same
\* objects, the two objects of a pair in either order.
SameApproval(m1, m2) ==
  /\ m1.kind = m2.kind
  /\ IF m1.kind \in {"CopperCopperClearanceViolation", "DrillDrillClearanceViolation",
                     "CourtyardOverlap"}
     THEN getApproval(m1) = getApproval(m2)
     ELSE m1.objs = m2.objs

\* The pairs of positions of the message list that hold messages of the kind
\* with the same approval key.
SharedKeys(kind) ==
  {ik \in (DOMAIN mMessages) \X (DOMAIN mMessages) :
     /\ ik[1] < ik[2]
     /\ mMessages[ik[1]].kind = kind
     /\ SameApproval(mMessages[ik[1]], mMessages[ik[2]])}

\* C22: when a run has returned, no two of its messages carry the same
\* approval key.
C22_NoTwoMessagesShareKey ==
  (pc = "done" /\ exception = "") =>
    \A i, k \in DOMAIN mMessages : i < k => ~SameApproval(mMessages[i], mMessages[k])

\* The holes, named as the messages name them, that the list of the run
\* reports with the kind.
HolesReported(kind) ==
  {mMessages[i].objs : i \in {k \in DOMAIN mMessages : mMessages[k].kind = kind}}

\* C23: a hole is judged either by the minimum drill diameter or by the
\* minimum slot width, so when a run has returned no hole has both a
\* MinimumDrillDiameterViolation and a MinimumSlotWidthViolation.
C23_OneSizeCheckPerHole ==
  (pc = "done" /\ exception = "") =>
    HolesReported("MinimumDrillDiameterViolation")
      \cap HolesReported("MinimumSlotWidthViolation") = {}

\* The stroke of every outline object that checkBoardOutline() collects lies
\* in the restricted area of the clearance.
BandHoldsOutlines(clearance) ==
  \A i \in DOMAIN BoardOutlines :
    toOutlineStrokes(BoardOutlines[i],
                     Max(clearance + clearance - maxArcTolerance - 1, 1))
      \subseteq getBoardClearanceArea(clearance)

\* C24: in a run of all checks the restricted area of the copper-board and
\* of the drill-board clearance check holds the stroke of every object that
\* the outline check collects as an outline.
C24_BandOfEveryOutline ==
  (pc = "done" /\ ~quick /\ exception = "") =>
    /\ BandHoldsOutlines(mSettings.minCopperBoardClearance)
    /\ BandHoldsOutlines(mSettings.minDrillBoardClearance)

\* The UUIDs of the pin children of an approval key, in their order.
PinChildren(sexpr) ==
  LET children == SelectSeq(sexpr, LAMBDA c : c[1] = "pin")
  IN  [i \in DOMAIN children |-> children[i][2]]

\* C25: the pin children of the approval key of an overlapping pins message
\* are the pins of the list ordered by UUID, whatever the order of the list.
C25_PinChildrenByUuid ==
  pc = "returned" => PinChildren(mApproval) = SortByUuid(pins)

\* setNetSignal() has changed nothing and emitted nothing.
NothingChanged ==
  /\ mNetSignal = called.mNetSignal
  /\ netSignals = called.netSignals
  /\ netSignalChanged = <<>>

\* setNetSignal() has completed: the instance is registered at the new net
\* signal and at no other, and the change was signalled once.
Completed ==
  /\ thrown = ""
  /\ mNetSignal = netsignal
  /\ \A ns \in NetSignals :
       /\ netSignals[ns].registered = (ns = netsignal)
       /\ netSignals[ns].added = called.netSignals[ns].added
  /\ netSignalChanged = <<<<called.mNetSignal, netsignal>>>>

\* C26: setNetSignal() does nothing when the net signal is the current one;
\* otherwise it throws a LogicError and changes nothing when the instance is
\* not added to the circuit or a pin or pad is in use; otherwise it either
\* completes or throws with everything as it was before the call.
C26_SetNetSignalAllOrNothing ==
  pc = "returned" =>
    IF netsignal = called.mNetSignal THEN thrown = "" /\ NothingChanged
    ELSE IF ~mIsAddedToCircuit \/ arePinsOrPadsUsed
         THEN thrown = "LogicError" /\ NothingChanged
    ELSE Completed \/ (thrown # "" /\ NothingChanged)

\* A call that threw after the instance was unregistered from its old net
\* signal.
C26_Witness ==
  /\ pc = "returned"
  /\ thrown = "Exception"
  /\ called.mNetSignal # NoNet
  /\ netsignal \notin {NoNet, called.mNetSignal}
  /\ mIsAddedToCircuit
  /\ ~arePinsOrPadsUsed

\* C27: whatever setters were called, the text has its values of the
\* construction of the command after performUndo() and after the destruction
\* of a command that was never executed, and its values after the execute
\* after performRedo().
C27_UndoRedoRestore ==
  /\ cmd \in {"undone", "destroyed"} => mText = atConstruction
  /\ cmd = "redone" => mText = afterExecute

\* A command undone, or destroyed unexecuted, after a setter has changed the
\* text at once.
C27_Witness ==
  /\ cmd \in {"undone", "destroyed"}
  /\ setterCalls = MaxSetters
  /\ mNew.align # atConstruction.align
  /\ mNew.position # atConstruction.position

\* The drill diameter of a pad is at most its width and at most its height.
DrillFits(pad) == pad.drill <= pad.width /\ pad.drill <= pad.height

\* C21: after any sequence of width, height and drill diameter edits in the
\* toolbar of the add-pads tool for through-hole pads, the drill diameter is
\* at most the width and at most the height, in the edit fields, in the pad
\* the next pad is copied from and in the pad being placed.
C21_DrillWithinPadSize ==
  /\ edtDrillDiameter <= edtWidth /\ edtDrillDiameter <= edtHeight
  /\ mLastPad # <<>> => DrillFits(mLastPad)
  /\ mCurrentPad # NoPad => DrillFits(mCurrentPad)

\* The width was edited to a value below the drill diameter it had, with a
\* pad in progress.
C21_Witness ==
  /\ handled = <<"width", TRUE>>
  /\ mCurrentPad # NoPad
  /\ edtWidth = 5
  /\ edtDrillDiameter = 5
  /\ mCurrentPad.drill = 5
  /\ mCurrentPad.height > 5

\* The pad in progress, its edit command and its graphics item.
AllSet == mCurrentPad # NoPad /\ mEditCmd = "set" /\ mCurrentGraphicsItem = "set"

AllUnset == mCurrentPad = NoPad /\ mEditCmd = "null" /\ mCurrentGraphicsItem = "null"

\* C28: after every event handler of the add-pads tool the pad in progress,
\* its edit command and its graphics item are all set or all unset, and a
\* command group is open exactly when they are set, also when starting or
\* finishing a pad has failed; after exit() has returned true they are unset,
\* no command group is open and no unplaced pad is in the footprint.
C28_PadCommandItemTogether ==
  toolState # "" =>
    /\ AllSet \/ AllUnset
    /\ cmdGroupActive <=> AllSet
    /\ handled = <<"exit", TRUE>> =>
         AllUnset /\ ~cmdGroupActive /\ ~footprintPads.pending

\* C29: for every value v of the signed type T, its minimum and maximum
\* included, and every pointPos >= 1, decimalFixedPointFromString() of the
\* string decimalFixedPointToString(v, pointPos) returns v and does not throw.
C29_FixedPointRoundTrip ==
  pc = "parsed" => ~parseError /\ result = fixedValue

\* The minimum of T has made the round trip.
C29_Witness ==
  /\ pc = "parsed"
  /\ fixedValue = TMin
  /\ pointPos = MaxPointPos
  /\ fixedStr[1] = "-"

====
